---------------------------- MODULE Spec2Model ----------------------------
(***************************************************************************)
(* State-machine model of BridgeClientCore                                 *)
(* (tachybridge-wasm/src/client-core.ts): the connection life cycle, the   *)
(* reconnect scheduler, the stale-socket filter, the correlation tables of *)
(* service calls, action goals and cancels, and the replay of              *)
(* subscriptions and advertisements on open.                               *)
(*                                                                         *)
(* Granularity.  One action is one task of the JavaScript event loop       *)
(* together with the promise reactions it triggers that are already        *)
(* runnable (a finally, a then or a catch on a promise settled in the same *)
(* task).  The one suspension point that is a step boundary of its own is  *)
(* `await this.protocolPromise` inside sendWithProtocol: the protocol      *)
(* loader may still be loading, so any task can run between the readyState *)
(* check and the send.                                                     *)
(*                                                                         *)
(* The transport is an arbitrary WebSocketLike.  The newest transport is   *)
(* followed in `transport`: it opens at most once, errors at most once and *)
(* delivers nothing after its close event.  An older transport can no      *)
(* longer be reached through this.ws; the model keeps no readyState for it *)
(* and lets it deliver any event at any time.                              *)
(***************************************************************************)
EXTENDS Integers, Sequences, FiniteSets, TLC

\* ------------------------------------------------------------------ bounds
MaxSockets == 2      \* transports the factory creates in one behaviour
MaxAttempt == 2      \* the factory throws only while reconnectAttempt is below this
MaxGoals == 2        \* sendActionGoal invocations
MaxCancels == 1      \* cancelActionGoal invocations
MaxPending == 1      \* calls, goals or cancels beside the subject of a specification
MaxTasks == 1        \* sends suspended at `await this.protocolPromise`
MaxCalls == 2        \* callService invocations where they share an id
MaxN == 4            \* reconnect attempts whose delay SpecDelay computes
MaxWire == 2         \* envelopes handed to send() where topic calls can repeat

\* ------------------------------------------------------- program constants
OPEN == 1            \* client-core.ts:53
CONNECTING == 0      \* readyState of a transport that has not opened
CLOSED == 3          \* readyState after close (reconnect.test.ts:47)

\* -------------------------------------------------------------- value sets
NoUrl == ""
Urls == {"u1"}
SvcIds == {"s1"}
ActIds == {"a1", "a2"}
NoSession == ""
Sessions == {"x"}
Actions == {"act"}
CancelKeys == Actions \X ({"default"} \cup Sessions)
Topics == {"t1", "t2"}
Types == {"T1", "T2"}
Compressions == {"none", "png"}
Callbacks == {"cb1", "cb2"}
Reasons == {"socket_close", "socket_error", "connect_error", "open_socket_throw"}

VARIABLES
    ws,                      \* this.ws: 0 (undefined) or the index of a transport in sockets
    socketGeneration,        \* this.socketGeneration
    activeSocketGeneration,  \* this.activeSocketGeneration
    wsUrl,                   \* this.wsUrl, NoUrl when undefined
    manualClose,             \* this.manualClose
    connectInFlight,         \* this.connectInFlight: 0 or the transport whose openSocket promise it is
    reconnectAttempt,        \* this.reconnectAttempt
    reconnectTimer,          \* this.reconnectTimer: 0 or a timer handle
    pendingCalls,            \* this.pendingCalls: id -> call (index in calls), 0 when absent
    pendingActions,          \* this.pendingActions: id -> goal (index in goals), 0 when absent
    actionIdBySession,       \* this.actionIdBySession: session -> action id, "" when absent
    pendingActionCancels,    \* this.pendingActionCancels: key -> cancel, 0 when absent
    subscriptions,           \* this.subscriptions, in insertion order
    advertisedTopics,        \* this.advertisedTopics, in insertion order
    options,                 \* this.options.reconnect, fixed by the constructor
    sockets,                 \* every transport the factory returned, in creation order
    transport,               \* readyState and delivered events of the newest transport
    timers,                  \* the reconnect timers that are armed
    calls,                   \* every callService invocation and the state of its promise
    goals,                   \* every sendActionGoal invocation and its completion
    cancels,                 \* every cancelActionGoal invocation and its promise
    tasks,                   \* sendWithProtocol calls suspended at the await
    limits,                  \* how far one behaviour goes: the bounds the specification chose
    step,                    \* the task that ran last and what it emitted
    codec                    \* the codec at work: the value it was given and what it made of it

vars == <<ws, socketGeneration, activeSocketGeneration, wsUrl, manualClose,
          connectInFlight, reconnectAttempt, reconnectTimer, pendingCalls,
          pendingActions, actionIdBySession, pendingActionCancels,
          subscriptions, advertisedTopics, options, sockets, transport, timers,
          calls,
          goals, cancels, tasks, limits, step, codec>>

\* Everything but the codec.
client == <<ws, socketGeneration, activeSocketGeneration, wsUrl, manualClose,
            connectInFlight, reconnectAttempt, reconnectTimer, pendingCalls,
            pendingActions, actionIdBySession, pendingActionCancels,
            subscriptions, advertisedTopics, options, sockets, transport, timers,
            calls, goals, cancels, tasks, limits, step>>

\* The client and its environment as one record, so that the handlers can be
\* composed in the order the code calls them.  notes, sched, factory, dispatched
\* and res collect what the running task emits: observer callbacks,
\* onReconnectScheduled events, calls of the transport factory, application
\* callbacks invoked by the dispatch, and the outcome of the API call; invoked
\* lists the subscription callbacks in the order they were called, asked the
\* contexts shouldRetry was called with and what it answered.  thrown
\* and failed carry an exception to the caller inside one task.
NoFrame == [kind |-> "none", id |-> "", session |-> "", ok |-> TRUE]

State ==
    [ws |-> ws, socketGeneration |-> socketGeneration,
     activeSocketGeneration |-> activeSocketGeneration, wsUrl |-> wsUrl,
     manualClose |-> manualClose, connectInFlight |-> connectInFlight,
     reconnectAttempt |-> reconnectAttempt, reconnectTimer |-> reconnectTimer,
     pendingCalls |-> pendingCalls, pendingActions |-> pendingActions,
     actionIdBySession |-> actionIdBySession,
     pendingActionCancels |-> pendingActionCancels,
     subscriptions |-> subscriptions, advertisedTopics |-> advertisedTopics,
     sockets |-> sockets, transport |-> transport, timers |-> timers,
     calls |-> calls, goals |-> goals,
     cancels |-> cancels, tasks |-> tasks,
     notes |-> {}, sched |-> {}, asked |-> {}, factory |-> 0, dispatched |-> {},
     invoked |-> <<>>, res |-> "", frame |-> NoFrame, thrown |-> FALSE, failed |-> FALSE]

Commit(s, op, g) ==
    /\ ws' = s.ws
    /\ socketGeneration' = s.socketGeneration
    /\ activeSocketGeneration' = s.activeSocketGeneration
    /\ wsUrl' = s.wsUrl
    /\ manualClose' = s.manualClose
    /\ connectInFlight' = s.connectInFlight
    /\ reconnectAttempt' = s.reconnectAttempt
    /\ reconnectTimer' = s.reconnectTimer
    /\ pendingCalls' = s.pendingCalls
    /\ pendingActions' = s.pendingActions
    /\ actionIdBySession' = s.actionIdBySession
    /\ pendingActionCancels' = s.pendingActionCancels
    /\ subscriptions' = s.subscriptions
    /\ advertisedTopics' = s.advertisedTopics
    /\ sockets' = s.sockets
    /\ transport' = s.transport
    /\ timers' = s.timers
    /\ calls' = s.calls
    /\ goals' = s.goals
    /\ cancels' = s.cancels
    /\ tasks' = s.tasks
    /\ options' = options
    /\ limits' = limits
    /\ codec' = codec
    /\ step' = [op |-> op, gen |-> g, notes |-> s.notes, sched |-> s.sched,
                asked |-> s.asked,
                factory |-> s.factory, dispatched |-> s.dispatched,
                invoked |-> s.invoked, res |-> s.res, frame |-> s.frame]

\* The outcomes a task does not decide itself: what shouldRetry returns on its
\* first and second consultation, whether the factory throws, whether send() on
\* a transport that is not open throws, and the draw of Math.random.  Each
\* action draws only the outcomes its code can consult.
Retries == IF options.hasShouldRetry THEN BOOLEAN ELSE {TRUE}
Draws == {0}
Chances(retry, retry2, throws, sendThrows) ==
    [retry : retry, retry2 : retry2, throws : throws, sendThrows : sendThrows,
     rnd : Draws]

Note(s, n) == [s EXCEPT !.notes = @ \cup {n}]

\* ------------------------------------------------------------ small helpers
Max(a, b) == IF a >= b THEN a ELSE b
Min(a, b) == IF a <= b THEN a ELSE b

RECURSIVE Pow(_, _)
Pow(b, k) == IF k = 0 THEN 1 ELSE b * Pow(b, k - 1)

\* Index of the entry for `topic` in an insertion-ordered table, 0 when absent.
IndexOf(table, topic) ==
    IF \E i \in 1..Len(table) : table[i].topic = topic
    THEN CHOOSE i \in 1..Len(table) : table[i].topic = topic
    ELSE 0

\* The values of a sequence, and Set.add on a Set kept in insertion order: a
\* value that is already in it keeps its place.
Range(seq) == {seq[i] : i \in 1..Len(seq)}
\* Array.push in the place of Set.add.
AddOnce_push(seq, v) == Append(seq, v)

AddOnce(seq, v) == IF v \in Range(seq) THEN seq ELSE Append(seq, v)

RemoveAt(table, k) ==
    [i \in 1..(Len(table) - 1) |-> IF i < k THEN table[i] ELSE table[i + 1]]

\* A fresh timer handle: one that is not armed.
NewTimer(armed) == CHOOSE t \in 1..(Cardinality(armed) + 1) : t \notin armed

\* A transport as the factory returns it.  by: who called openSocket.  promise:
\* the promise of that openSocket call.  rphase..rlive: the rebindState call
\* its onopen started (position of the Map iterator, the entry it holds).
\* sent: the envelopes send() took on it; wire: the envelopes handed to its
\* send() without a throw, in that order, each with the rebindState call (from)
\* that handed it over, 0 for an API call, and whether the transport was OPEN
\* and took it.
NewSocket(by) ==
    [by |-> by, promise |-> "pending", rphase |-> "none", rpos |-> 0,
     rtopic |-> "", rtype |-> "", rcomp |-> "", rlive |-> FALSE, sent |-> {},
     wire |-> <<>>]

NewTransport ==
    [rs |-> CONNECTING, opened |-> FALSE, errored |-> FALSE, closed |-> FALSE]

\* readyState of transport g as the client reads it.  An older transport is
\* read only through a stale this.ws, which the code never keeps.
ReadyState(s, g) == IF g = Len(s.sockets) THEN s.transport.rs ELSE CLOSED

\* ----------------------------------------------------- reconnect scheduler
\* Math.random() * 2 - 1 lies in [-1, 1); the draws are counted in halves.
RndDen == 2

computeReconnectDelayMs(attempt, rnd) ==
    LET boundedInitial == Max(0, options.initialDelayMs)
        boundedMax == Max(boundedInitial, options.maxDelayMs)
        mulNum == IF options.mulNum > 0 THEN options.mulNum ELSE 1
        mulDen == IF options.mulNum > 0 THEN options.mulDen ELSE 1
        k == Max(0, attempt - 1)
        den == Pow(mulDen, k)
        rawNum == boundedInitial * Pow(mulNum, k)
        \* baseDelay = baseNum / den
        baseNum == IF rawNum <= boundedMax * den THEN rawNum ELSE boundedMax * den
        jitNum == IF options.jitNum < 0 THEN 0
                  ELSE IF options.jitNum > options.jitDen THEN options.jitDen
                  ELSE options.jitNum
        jittered == (baseNum * (RndDen * options.jitDen + rnd * jitNum))
                        \div (den * RndDen * options.jitDen)
    IN  IF jitNum = 0
        THEN Max(0, baseNum \div den)
        ELSE Max(0, Min(boundedMax, jittered))

clearReconnectTimer(s) ==
    IF s.reconnectTimer = 0 THEN s
    ELSE [s EXCEPT !.timers = @ \ {s.reconnectTimer}, !.reconnectTimer = 0]

\* resetReconnectState that forgets `this.reconnectAttempt = 0`.
resetReconnectState_keepAttempt(s) == clearReconnectTimer(s)

resetReconnectState(s) ==
    [clearReconnectTimer(s) EXCEPT !.reconnectAttempt = 0]

\* Reject a promise that is still pending; settling twice is a no-op.
Settle(seq, i, st, why) ==
    IF i = 0 \/ seq[i].st # "pending" THEN seq
    ELSE [seq EXCEPT ![i].st = st, ![i].why = why]

Disarm(seq, i) == IF i = 0 THEN seq ELSE [seq EXCEPT ![i].timer = FALSE]

\* rejectPendingActionsOnDisconnect that treats the service calls like the
\* action goals.
rejectPendingActionsOnDisconnect_alsoCalls(s) ==
    LET inCalls == {s.pendingCalls[c] : c \in SvcIds} \ {0}
    IN  [s EXCEPT
            !.calls = [i \in 1..Len(s.calls) |->
                IF i \in inCalls
                THEN [Settle(s.calls, i, "rejected", "disconnect")[i]
                        EXCEPT !.timer = FALSE]
                ELSE s.calls[i]],
            !.pendingCalls = [c \in SvcIds |-> 0]]

rejectPendingActionsOnDisconnect(s) ==
    LET inGoals == {s.pendingActions[a] : a \in ActIds} \ {0}
        inCancels == {s.pendingActionCancels[k] : k \in CancelKeys} \ {0}
    IN  [s EXCEPT
            !.goals = [i \in 1..Len(s.goals) |->
                IF i \in inGoals
                THEN [Settle(s.goals, i, "rejected", "disconnect")[i]
                        EXCEPT !.timer = FALSE]
                ELSE s.goals[i]],
            !.pendingActions = [a \in ActIds |-> 0],
            !.actionIdBySession = [x \in Sessions |-> ""],
            !.cancels = [i \in 1..Len(s.cancels) |->
                IF i \in inCancels
                THEN [Settle(s.cancels, i, "rejected", "disconnect")[i]
                        EXCEPT !.timer = FALSE]
                ELSE s.cancels[i]],
            !.pendingActionCancels = [k \in CancelKeys |-> 0]]

\* scheduleReconnect without `if (this.reconnectTimer) return`.
scheduleReconnect_noTimerCheck(s, reason, retry, rnd) ==
    LET r == rejectPendingActionsOnDisconnect(s)
        nextAttempt == r.reconnectAttempt + 1
        t == NewTimer(r.timers)
        q == IF options.hasShouldRetry
             THEN [r EXCEPT !.asked = @ \cup {[reason |-> reason, attempt |-> nextAttempt,
                                                answer |-> retry]}]
             ELSE r
    IN  IF r.manualClose \/ ~options.enabled \/ r.wsUrl = NoUrl THEN r
        ELSE IF options.hasShouldRetry /\ ~retry THEN q
        ELSE [q EXCEPT
                !.reconnectAttempt = nextAttempt,
                !.sched = @ \cup {[attempt |-> nextAttempt,
                                   delay |-> computeReconnectDelayMs(nextAttempt, rnd),
                                   reason |-> reason]},
                !.reconnectTimer = t,
                !.timers = @ \cup {t}]

\* scheduleReconnect without the manualClose test of line 406.
scheduleReconnect_noManualCheck(s, reason, retry, rnd) ==
    LET r == rejectPendingActionsOnDisconnect(s)
        nextAttempt == r.reconnectAttempt + 1
        t == NewTimer(r.timers)
        q == IF options.hasShouldRetry
             THEN [r EXCEPT !.asked = @ \cup {[reason |-> reason, attempt |-> nextAttempt,
                                                answer |-> retry]}]
             ELSE r
    IN  IF ~options.enabled \/ r.wsUrl = NoUrl THEN r
        ELSE IF options.hasShouldRetry /\ ~retry THEN q
        ELSE IF r.reconnectTimer # 0 THEN q
        ELSE [q EXCEPT
                !.reconnectAttempt = nextAttempt,
                !.sched = @ \cup {[attempt |-> nextAttempt,
                                   delay |-> computeReconnectDelayMs(nextAttempt, rnd),
                                   reason |-> reason]},
                !.reconnectTimer = t,
                !.timers = @ \cup {t}]

\* scheduleReconnect that counts the attempt before it asks shouldRetry.
scheduleReconnect_countsFirst(s, reason, retry, rnd) ==
    LET r == rejectPendingActionsOnDisconnect(s)
        nextAttempt == r.reconnectAttempt + 1
        t == NewTimer(r.timers)
        q == IF options.hasShouldRetry
             THEN [r EXCEPT !.asked = @ \cup {[reason |-> reason, attempt |-> nextAttempt,
                                                answer |-> retry]},
                            !.reconnectAttempt = nextAttempt]
             ELSE r
    IN  IF r.manualClose \/ ~options.enabled \/ r.wsUrl = NoUrl THEN r
        ELSE IF options.hasShouldRetry /\ ~retry THEN q
        ELSE IF r.reconnectTimer # 0 THEN q
        ELSE [q EXCEPT
                !.reconnectAttempt = nextAttempt,
                !.sched = @ \cup {[attempt |-> nextAttempt,
                                   delay |-> computeReconnectDelayMs(nextAttempt, rnd),
                                   reason |-> reason]},
                !.reconnectTimer = t,
                !.timers = @ \cup {t}]

\* scheduleReconnect that reports the first attempt only.
scheduleReconnect_reportsFirst(s, reason, retry, rnd) ==
    LET r == rejectPendingActionsOnDisconnect(s)
        nextAttempt == r.reconnectAttempt + 1
        t == NewTimer(r.timers)
        q == IF options.hasShouldRetry
             THEN [r EXCEPT !.asked = @ \cup {[reason |-> reason, attempt |-> nextAttempt,
                                                answer |-> retry]}]
             ELSE r
    IN  IF r.manualClose \/ ~options.enabled \/ r.wsUrl = NoUrl THEN r
        ELSE IF options.hasShouldRetry /\ ~retry THEN q
        ELSE IF r.reconnectTimer # 0 THEN q
        ELSE [q EXCEPT
                !.reconnectAttempt = nextAttempt,
                !.sched = IF nextAttempt > 1 THEN @
                          ELSE @ \cup {[attempt |-> nextAttempt,
                                   delay |-> computeReconnectDelayMs(nextAttempt, rnd),
                                   reason |-> reason]},
                !.reconnectTimer = t,
                !.timers = @ \cup {t}]

scheduleReconnect(s, reason, retry, rnd) ==
    LET r == rejectPendingActionsOnDisconnect(s)
        nextAttempt == r.reconnectAttempt + 1
        t == NewTimer(r.timers)
        q == IF options.hasShouldRetry
             THEN [r EXCEPT !.asked = @ \cup {[reason |-> reason, attempt |-> nextAttempt,
                                                answer |-> retry]}]
             ELSE r
    IN  IF r.manualClose \/ ~options.enabled \/ r.wsUrl = NoUrl THEN r
        ELSE IF options.hasShouldRetry /\ ~retry THEN q
        ELSE IF r.reconnectTimer # 0 THEN q
        ELSE [q EXCEPT
                !.reconnectAttempt = nextAttempt,
                !.sched = @ \cup {[attempt |-> nextAttempt,
                                   delay |-> computeReconnectDelayMs(nextAttempt, rnd),
                                   reason |-> reason]},
                !.reconnectTimer = t,
                !.timers = @ \cup {t}]

\* ------------------------------------------------------------- openSocket
\* The promise of an openSocket call settles once (resolveOnce / rejectOnce).
\* connect() clears connectInFlight in its finally when the promise is the one
\* it stored; the reconnect timer's callback catches a rejection with
\* scheduleReconnect("connect_error").
settlePromise(s, g, outcome, ch) ==
    IF s.sockets[g].promise # "pending" THEN s
    ELSE LET s1 == [s EXCEPT !.sockets[g].promise = outcome]
             s2 == IF s1.connectInFlight = g /\ s1.sockets[g].by = "connect"
                   THEN [s1 EXCEPT !.connectInFlight = 0] ELSE s1
         IN  IF outcome = "rejected" /\ s.sockets[g].by = "timer"
             THEN scheduleReconnect(s2, "connect_error", ch.retry2, ch.rnd)
             ELSE s2

\* ws.close() on a transport: readyState leaves OPEN / CONNECTING at once, the
\* close event is delivered later by the transport.
closeTransport(s) ==
    IF s.ws = 0 \/ s.ws # Len(s.sockets) THEN s
    ELSE [s EXCEPT !.transport.rs = CLOSED]

\* openSocket up to its await: the factory call and, when it returns, the new
\* generation.  thrown tells the caller that the returned promise is rejected.
openSocket(s, by, ch) ==
    IF ch.throws
    THEN [scheduleReconnect([Note(s, "onSocketError") EXCEPT !.factory = @ + 1],
                            "open_socket_throw", ch.retry, ch.rnd)
            EXCEPT !.thrown = TRUE]
    ELSE LET g == s.socketGeneration + 1
         IN  [s EXCEPT !.factory = @ + 1,
                       !.sockets = Append(@, NewSocket(by)),
                       !.transport = NewTransport,
                       !.socketGeneration = g,
                       !.activeSocketGeneration = g,
                       !.ws = Len(s.sockets) + 1]

\* The factory is given room to throw only below limits.attempts, and to return
\* a transport only below limits.sockets.
CanOpen(ch) ==
    IF ch.throws THEN reconnectAttempt < limits.attempts
    ELSE Len(sockets) < limits.sockets

\* --------------------------------------------------------- sendWithProtocol
\* Line 666: the check made before the await.
sendCheck(s) == s.ws # 0 /\ ReadyState(s, s.ws) = OPEN

\* Lines 669-681: what runs after the await.  The message is built and checked
\* (lines 670-679); this.ws is read again: it may be undefined (a TypeError),
\* another transport, or a transport that is no longer open, whose send()
\* throws or discards as the transport sees fit.
Handed(env, taken) ==
    [op |-> env.op, key |-> env.key, type |-> env.type, comp |-> env.comp,
     from |-> env.from, taken |-> taken]

\* A value a protocol builder returned: <<"undefined">>, <<"null">>, <<"text">>,
\* <<"array">>, or <<"object", op>> with op <<"absent">>, <<"number">> or
\* <<"string", s>>.  Lines 68-74.
hasValidOpEnvelope(value) ==
    value[1] = "object" /\ value[2][1] = "string" /\ value[2][2] # ""

\* protocol-fallback.ts: every builder returns an object with the op of the
\* call.
fallbackProtocol(env) == <<"object", <<"string", env.op>>>>

\* The loaded protocol: options.builds is what its builders return,
\* <<"envelope">> when they build what the fallback builds.
loadedProtocol(env) ==
    IF options.builds = <<"envelope">> THEN fallbackProtocol(env) ELSE options.builds

\* Lines 670-676 without the retry through the fallback.
build_noRetry(env) == loadedProtocol(env)

\* Lines 670-676: build(protocol), and build(fallbackProtocol) when the first
\* is no envelope with an op.
build(env) ==
    LET message == loadedProtocol(env)
    IN  IF ~hasValidOpEnvelope(message) THEN fallbackProtocol(env) ELSE message

sendNow(s, env, ch) ==
    LET message == build(env)
        out == [env EXCEPT !.op = IF hasValidOpEnvelope(message) THEN message[2][2]
                                  ELSE ""]
    IN  IF ~hasValidOpEnvelope(message) THEN [s EXCEPT !.failed = TRUE]
        ELSE IF s.ws = 0 THEN [s EXCEPT !.failed = TRUE]
        ELSE IF ReadyState(s, s.ws) = OPEN
             THEN IF limits.order
                  THEN [s EXCEPT !.sockets[s.ws].wire = Append(@, Handed(out, TRUE))]
                  ELSE IF limits.log
                  THEN [s EXCEPT !.sockets[s.ws].sent =
                            @ \cup {[op |-> out.op, key |-> out.key,
                                     type |-> out.type, comp |-> out.comp]}]
                  ELSE s
             ELSE IF ch.sendThrows THEN [s EXCEPT !.failed = TRUE]
             ELSE IF limits.order
             THEN [s EXCEPT !.sockets[s.ws].wire = Append(@, Handed(out, FALSE))]
             ELSE s

\* ------------------------------------------------------------- rebindState
replayDone(s, g, ch) ==
    settlePromise([Note(s, "onSocketOpen") EXCEPT !.sockets[g].rphase = "done"],
                  g, "resolved", ch)

\* The catch of onopen that notifies the error and leaves the promise alone.
replayFailed_noReject(s, g, ch) ==
    LET s1 == [Note(s, "onSocketError") EXCEPT !.sockets[g].rphase = "failed",
                                              !.failed = FALSE]
    IN  scheduleReconnect(s1, "connect_error", ch.retry, ch.rnd)

replayFailed(s, g, ch) ==
    LET s1 == [Note(s, "onSocketError") EXCEPT !.sockets[g].rphase = "failed",
                                              !.failed = FALSE]
        s2 == scheduleReconnect(s1, "connect_error", ch.retry, ch.rnd)
    IN  settlePromise(s2, g, "rejected", ch)

\* The loops of rebindState from entry `pos` of table `phase` on: take the next
\* entry, make the check of sendWithProtocol and suspend at its await; with no
\* entry left rebindState returns.
nextReplay(s, g, phase, pos, ch) ==
    LET inSubs == phase = "sub" /\ pos <= Len(s.subscriptions)
        advPos == IF phase = "adv" THEN pos ELSE 1
        inAdvs == ~inSubs /\ advPos <= Len(s.advertisedTopics)
    IN  IF ~inSubs /\ ~inAdvs THEN replayDone(s, g, ch)
        ELSE IF ~sendCheck(s) THEN replayFailed(s, g, ch)
        ELSE IF inSubs
        THEN [s EXCEPT !.sockets[g].rphase = "sub",
                       !.sockets[g].rpos = pos,
                       !.sockets[g].rtopic = s.subscriptions[pos].topic,
                       !.sockets[g].rtype = s.subscriptions[pos].type,
                       !.sockets[g].rcomp = s.subscriptions[pos].compression,
                       !.sockets[g].rlive = TRUE]
        ELSE [s EXCEPT !.sockets[g].rphase = "adv",
                       !.sockets[g].rpos = advPos,
                       !.sockets[g].rtopic = s.advertisedTopics[advPos].topic,
                       !.sockets[g].rtype = s.advertisedTopics[advPos].type,
                       !.sockets[g].rcomp = "",
                       !.sockets[g].rlive = FALSE]

\* ------------------------------------------------- connection: the actions
\* connect() without the connectInFlight test of lines 137-139.
connect_noDedup(url, ch) ==
    /\ CanOpen(ch)
    /\ LET s1 == [State EXCEPT !.manualClose = FALSE, !.wsUrl = url]
           s2 == closeTransport(clearReconnectTimer(s1))
           s3 == openSocket(s2, "connect", ch)
           s4 == IF s3.thrown THEN s3
                 ELSE [s3 EXCEPT !.connectInFlight = s3.socketGeneration]
       IN  Commit([s4 EXCEPT !.res = IF s3.thrown THEN "thrown" ELSE "opening"],
                  "connect", s4.connectInFlight)

connect(url, ch) ==
    IF connectInFlight # 0
    THEN Commit([State EXCEPT !.res = "joined"], "connect", connectInFlight)
    ELSE /\ CanOpen(ch)
         /\ LET s1 == [State EXCEPT !.manualClose = FALSE, !.wsUrl = url]
                s2 == closeTransport(clearReconnectTimer(s1))
                s3 == openSocket(s2, "connect", ch)
                s4 == IF s3.thrown THEN s3
                      ELSE [s3 EXCEPT !.connectInFlight = s3.socketGeneration]
            IN  Commit([s4 EXCEPT !.res = IF s3.thrown THEN "thrown" ELSE "opening"],
                       "connect", s4.connectInFlight)

\* close() that rejects the pending actions itself.
close_rejectsPending ==
    LET s1 == clearReconnectTimer([State EXCEPT !.manualClose = TRUE])
        s2 == closeTransport([s1 EXCEPT !.connectInFlight = 0])
        s3 == rejectPendingActionsOnDisconnect(s2)
    IN  Commit(resetReconnectState([s3 EXCEPT !.ws = 0]), "close", 0)

close ==
    LET s1 == clearReconnectTimer([State EXCEPT !.manualClose = TRUE])
        s2 == closeTransport([s1 EXCEPT !.connectInFlight = 0])
    IN  Commit(resetReconnectState([s2 EXCEPT !.ws = 0]), "close", 0)

\* The callback of the reconnect timer, lines 427-433.
reconnectTimerFired(t, ch) ==
    /\ t \in timers
    /\ CanOpen(ch)
    /\ LET s1 == [State EXCEPT !.timers = @ \ {t}, !.reconnectTimer = 0]
           s2 == openSocket(s1, "timer", ch)
           s3 == IF s2.thrown
                 THEN scheduleReconnect(s2, "connect_error", ch.retry2, ch.rnd)
                 ELSE s2
       IN  Commit(s3, "timer", t)

\* What the transport itself does when it delivers an event: the newest one
\* follows its flags, an older one is free.
Newest(g) == g = Len(sockets)

\* onopen that notifies and resolves before rebindState has run.
onopen_notifyFirst(g, ch) ==
    /\ g \in 1..Len(sockets)
    /\ Newest(g) => ~transport.opened /\ ~transport.closed /\ ~transport.errored
    /\ LET s1 == IF Newest(g)
                 THEN [State EXCEPT !.transport.opened = TRUE,
                                    !.transport.rs = IF @ = CONNECTING THEN OPEN ELSE @]
                 ELSE State
           s2 == settlePromise(Note(resetReconnectState(s1), "onSocketOpen"),
                               g, "resolved", ch)
       IN  IF g # activeSocketGeneration THEN Commit(s1, "onopen", g)
           ELSE Commit(nextReplay(s2, g, "sub", 1, ch), "onopen", g)

\* ws.onopen, lines 361-377.  The transport is OPEN when it fires the event,
\* unless close() was called on it first.
onopen(g, ch) ==
    /\ g \in 1..Len(sockets)
    /\ Newest(g) => ~transport.opened /\ ~transport.closed /\ ~transport.errored
    /\ LET s1 == IF Newest(g)
                 THEN [State EXCEPT !.transport.opened = TRUE,
                                    !.transport.rs = IF @ = CONNECTING THEN OPEN ELSE @]
                 ELSE State
       IN  IF g # activeSocketGeneration THEN Commit(s1, "onopen", g)
           ELSE Commit(nextReplay(resetReconnectState(s1), g, "sub", 1, ch),
                       "onopen", g)

\* ws.onerror, lines 378-386.
onerror_noSchedule(g, ch) ==
    /\ g \in 1..Len(sockets)
    /\ Newest(g) => ~transport.closed /\ ~transport.errored
    /\ LET s1 == IF Newest(g)
                 THEN [State EXCEPT !.transport.errored = TRUE,
                                    !.transport.rs = CLOSED]
                 ELSE State
       IN  IF g # activeSocketGeneration THEN Commit(s1, "onerror", g)
           ELSE Commit(settlePromise(Note(s1, "onSocketError"), g, "rejected", ch),
                       "onerror", g)

onerror(g, ch) ==
    /\ g \in 1..Len(sockets)
    /\ Newest(g) => ~transport.closed /\ ~transport.errored
    /\ LET s1 == IF Newest(g)
                 THEN [State EXCEPT !.transport.errored = TRUE,
                                    !.transport.rs = CLOSED]
                 ELSE State
       IN  IF g # activeSocketGeneration THEN Commit(s1, "onerror", g)
           ELSE Commit(settlePromise(
                           scheduleReconnect(Note(s1, "onSocketError"),
                                             "socket_error", ch.retry, ch.rnd),
                           g, "rejected", ch),
                       "onerror", g)

\* onclose without the generation test of line 388.
onclose_noFilter(g, ch) ==
    /\ g \in 1..Len(sockets)
    /\ Newest(g) => ~transport.closed
    /\ LET s1 == IF Newest(g)
                 THEN [State EXCEPT !.transport.closed = TRUE,
                                    !.transport.rs = CLOSED]
                 ELSE State
       IN  Commit(scheduleReconnect(Note(s1, "onSocketClose"),
                                    "socket_close", ch.retry, ch.rnd),
                  "onclose", g)

\* ws.onclose, lines 387-393.
onclose(g, ch) ==
    /\ g \in 1..Len(sockets)
    /\ Newest(g) => ~transport.closed
    /\ LET s1 == IF Newest(g)
                 THEN [State EXCEPT !.transport.closed = TRUE,
                                    !.transport.rs = CLOSED]
                 ELSE State
       IN  IF g # activeSocketGeneration THEN Commit(s1, "onclose", g)
           ELSE Commit(scheduleReconnect(Note(s1, "onSocketClose"),
                                         "socket_close", ch.retry, ch.rnd),
                       "onclose", g)

\* The continuation of rebindState after the await of one sendWithProtocol:
\* send the entry it holds, then go on with the next one.
replayStep(g, ch) ==
    /\ g \in 1..Len(sockets)
    /\ sockets[g].rphase \in {"sub", "adv"}
    /\ LET e == sockets[g]
           env == [op |-> IF e.rphase = "sub" THEN "subscribe" ELSE "advertise",
                   key |-> e.rtopic, type |-> e.rtype, comp |-> e.rcomp,
                   from |-> g]
           s1 == sendNow(State, env, ch)
       IN  IF s1.failed THEN Commit(replayFailed(s1, g, ch), "replay", g)
           ELSE Commit(nextReplay(s1, g, e.rphase, e.rpos + 1, ch), "replay", g)

\* ------------------------------------------------- topics: the API calls
\* An API call ends in sendWithProtocol: the check fails at once ("WebSocket is
\* not connected"), or the send is suspended at the await as a task.
\* sendWithProtocol without the check of line 666.
sendWithProtocol_noCheck(s, task) ==
    [s EXCEPT !.tasks = @ \cup {task}, !.res = "suspended"]

sendWithProtocol(s, task) ==
    IF sendCheck(s) THEN [s EXCEPT !.tasks = @ \cup {task}, !.res = "suspended"]
    ELSE [s EXCEPT !.res = "not_connected"]

Task(kind, key, type, comp, inst) ==
    [kind |-> kind, key |-> key, type |-> type, comp |-> comp, inst |-> inst]

\* The suspended send of a topic call: two calls with the same arguments are two
\* sends, told apart by inst.
TopicTask(s, kind, key, type, comp) ==
    Task(kind, key, type, comp,
         CHOOSE n \in 0..Cardinality(s.tasks) : Task(kind, key, type, comp, n) \notin s.tasks)

\* subscribe() that sends whether or not the type or the compression differs.
subscribe_alwaysSends(topic, type, comp, cb) ==
    /\ Cardinality(tasks) < limits.tasks
    /\ LET k == IndexOf(subscriptions, topic)
           task == TopicTask(State, "subscribe", topic, type, comp)
       IN  IF k # 0
           THEN LET s1 == [State EXCEPT !.subscriptions[k].callbacks = AddOnce(@, cb),
                                        !.subscriptions[k].type = type,
                                        !.subscriptions[k].compression = comp]
                IN  Commit(sendWithProtocol(s1, task), "subscribe", 0)
           ELSE LET s1 == [State EXCEPT !.subscriptions =
                            Append(@, [topic |-> topic, type |-> type,
                                       compression |-> comp, callbacks |-> <<cb>>])]
                IN  Commit(sendWithProtocol(s1, task), "subscribe", 0)

subscribe(topic, type, comp, cb) ==
    /\ Cardinality(tasks) < limits.tasks
    /\ LET k == IndexOf(subscriptions, topic)
           task == TopicTask(State, "subscribe", topic, type, comp)
       IN  IF k # 0
           THEN LET s1 == [State EXCEPT !.subscriptions[k].callbacks = AddOnce(@, cb)]
                    same == subscriptions[k].type = type
                            /\ subscriptions[k].compression = comp
                    \* the entry is one object: a replay that holds it sees the update
                    s2 == [s1 EXCEPT
                            !.subscriptions[k].type = type,
                            !.subscriptions[k].compression = comp,
                            !.sockets = [g \in 1..Len(s1.sockets) |->
                                IF s1.sockets[g].rphase = "sub"
                                   /\ s1.sockets[g].rlive
                                   /\ s1.sockets[g].rtopic = topic
                                THEN [s1.sockets[g] EXCEPT !.rtype = type, !.rcomp = comp]
                                ELSE s1.sockets[g]]]
                IN  IF same THEN Commit([s1 EXCEPT !.res = "ok"], "subscribe", 0)
                    ELSE Commit(sendWithProtocol(s2, task), "subscribe", 0)
           ELSE LET s1 == [State EXCEPT !.subscriptions =
                            Append(@, [topic |-> topic, type |-> type,
                                       compression |-> comp, callbacks |-> <<cb>>])]
                IN  Commit(sendWithProtocol(s1, task), "subscribe", 0)

\* unsubscribe() that sends the envelope and leaves the table alone.
unsubscribe_keepsEntry(topic) ==
    /\ Cardinality(tasks) < limits.tasks
    /\ Commit(sendWithProtocol(State, TopicTask(State, "unsubscribe", topic, "", "")),
              "unsubscribe", 0)

\* Map.delete under a running iterator: the entries behind the deleted one move
\* up, and an iterator that holds the deleted entry keeps the detached object.
unsubscribe(topic) ==
    /\ Cardinality(tasks) < limits.tasks
    /\ LET k == IndexOf(subscriptions, topic)
           s1 == IF k = 0 THEN State
                 ELSE [State EXCEPT
                        !.subscriptions = RemoveAt(@, k),
                        !.sockets = [g \in 1..Len(sockets) |->
                            IF sockets[g].rphase = "sub" /\ sockets[g].rpos >= k
                            THEN [sockets[g] EXCEPT
                                    !.rpos = @ - 1,
                                    !.rlive = @ /\ sockets[g].rtopic # topic]
                            ELSE sockets[g]]]
       IN  Commit(sendWithProtocol(s1, TopicTask(s1, "unsubscribe", topic, "", "")),
                  "unsubscribe", 0)

advertise(topic, type) ==
    /\ Cardinality(tasks) < limits.tasks
    /\ LET k == IndexOf(advertisedTopics, topic)
           s1 == IF k = 0
                 THEN [State EXCEPT !.advertisedTopics =
                        Append(@, [topic |-> topic, type |-> type])]
                 ELSE [State EXCEPT !.advertisedTopics[k].type = type]
       IN  Commit(sendWithProtocol(s1, TopicTask(s1, "advertise", topic, type, "")),
                  "advertise", 0)

publish(topic) ==
    /\ Cardinality(tasks) < limits.tasks
    /\ Commit(sendWithProtocol(State, TopicTask(State, "publish", topic, "", "")),
              "publish", 0)

\* ------------------------------------------------------------ service calls
\* One invocation: st / why are the state of its promise, timer whether its
\* timeout is armed, sent / on whether and on which transport send() took its
\* envelope.
NewEntry(id, session, timer) ==
    [id |-> id, session |-> session, st |-> "pending", why |-> "",
     timer |-> timer, sent |-> "no", on |-> 0]

\* The catch of callService, lines 221-227.
callSendFailed(s, i) ==
    [s EXCEPT !.calls = Settle(Disarm(@, i), i, "rejected", "send_error"),
              !.calls[i].sent = "failed",
              !.pendingCalls[s.calls[i].id] = 0,
              !.failed = FALSE]

callService(id, timer) ==
    /\ Len(calls) < limits.calls
    /\ Cardinality(tasks) < limits.tasks
    /\ LET i == Len(calls) + 1
           s1 == [State EXCEPT !.calls = Append(@, NewEntry(id, "", timer)),
                               !.pendingCalls[id] = i]
           s2 == sendWithProtocol(s1, Task("call", id, "", "", i))
       IN  Commit(IF s2.res = "not_connected" THEN callSendFailed(s2, i) ELSE s2,
                  "callService", i)

\* The timeout callback of callService without the delete of line 214.
callTimeout_keepsEntry(i) ==
    /\ i \in 1..Len(calls)
    /\ calls[i].timer
    /\ Commit([State EXCEPT
                !.calls = Settle(Disarm(@, i), i, "rejected", "timeout")],
              "callTimeout", i)

\* The timeout callback of callService, lines 213-216.
callTimeout(i) ==
    /\ i \in 1..Len(calls)
    /\ calls[i].timer
    /\ Commit([State EXCEPT
                !.calls = Settle(Disarm(@, i), i, "rejected", "timeout"),
                !.pendingCalls[calls[i].id] = 0],
              "callTimeout", i)

\* ------------------------------------------------------------- action goals
\* The catch of sendActionGoal, lines 271-280: the bookkeeping is rolled back
\* and the error rethrown; rejectCompletion is not called.
goalSendFailed(s, i) ==
    LET x == s.goals[i].session
        s1 == [s EXCEPT !.goals = Disarm(@, i),
                        !.goals[i].sent = "failed",
                        !.pendingActions[s.goals[i].id] = 0,
                        !.failed = FALSE]
    IN  IF x # NoSession THEN [s1 EXCEPT !.actionIdBySession[x] = ""] ELSE s1

sendActionGoal(id, session, timer) ==
    /\ Len(goals) < limits.goals
    /\ Cardinality(tasks) < limits.tasks
    /\ LET i == Len(goals) + 1
           s1 == [State EXCEPT !.goals = Append(@, NewEntry(id, session, timer)),
                               !.pendingActions[id] = i]
           s2 == IF session # NoSession
                 THEN [s1 EXCEPT !.actionIdBySession[session] = id] ELSE s1
           s3 == sendWithProtocol(s2, Task("goal", id, "", "", i))
       IN  Commit(IF s3.res = "not_connected" THEN goalSendFailed(s3, i) ELSE s3,
                  "sendActionGoal", i)

\* The timeout callback of sendActionGoal, lines 245-248.
goalTimeout(i) ==
    /\ i \in 1..Len(goals)
    /\ goals[i].timer
    /\ Commit([State EXCEPT
                !.goals = Settle(Disarm(@, i), i, "rejected", "timeout"),
                !.pendingActions[goals[i].id] = 0],
              "goalTimeout", i)

\* ------------------------------------------------------------------ cancels
\* A key that leaves the action out.
CancelKey_sessionOnly(action, session) ==
    <<"act", IF session = NoSession THEN "default" ELSE session>>

\* Lines 291 and 516: the action, and the session or "default".
CancelKey(action, session) ==
    <<action, IF session = NoSession THEN "default" ELSE session>>

cancelSendFailed(s, i) ==
    [s EXCEPT !.cancels = Settle(Disarm(@, i), i, "rejected", "send_error"),
              !.cancels[i].sent = "failed",
              !.pendingActionCancels[s.cancels[i].id] = 0,
              !.failed = FALSE]

cancelActionGoal(action, session, timer) ==
    /\ Len(cancels) < limits.cancels
    /\ Cardinality(tasks) < limits.tasks
    /\ LET i == Len(cancels) + 1
           key == CancelKey(action, session)
           s1 == [State EXCEPT !.cancels = Append(@, NewEntry(key, session, timer)),
                               !.pendingActionCancels[key] = i]
           s2 == sendWithProtocol(s1, Task("cancel", key, "", "", i))
       IN  Commit(IF s2.res = "not_connected" THEN cancelSendFailed(s2, i) ELSE s2,
                  "cancelActionGoal", i)

\* The timeout callback of cancelActionGoal, lines 296-299.
cancelTimeout(i) ==
    /\ i \in 1..Len(cancels)
    /\ cancels[i].timer
    /\ Commit([State EXCEPT
                !.cancels = Settle(Disarm(@, i), i, "rejected", "timeout"),
                !.pendingActionCancels[cancels[i].id] = 0],
              "cancelTimeout", i)

\* ------------------------------------- the suspended half of sendWithProtocol
taskRun(task, ch) ==
    /\ task \in tasks
    /\ LET env == [op |-> task.kind, key |-> task.key, type |-> task.type,
                   comp |-> task.comp, from |-> 0]
           s1 == sendNow([State EXCEPT !.tasks = @ \ {task}], env, ch)
           i == IF task.kind \in {"call", "goal", "cancel"} THEN task.inst ELSE 0
           s2 == IF s1.failed
                 THEN CASE task.kind = "call" -> callSendFailed(s1, i)
                        [] task.kind = "goal" -> goalSendFailed(s1, i)
                        [] task.kind = "cancel" -> cancelSendFailed(s1, i)
                        [] OTHER -> [s1 EXCEPT !.failed = FALSE]
                 ELSE CASE task.kind = "call" ->
                                [s1 EXCEPT !.calls[i].sent = "yes", !.calls[i].on = s1.ws]
                        [] task.kind = "goal" ->
                                [s1 EXCEPT !.goals[i].sent = "yes", !.goals[i].on = s1.ws]
                        [] task.kind = "cancel" ->
                                [s1 EXCEPT !.cancels[i].sent = "yes",
                                           !.cancels[i].on = s1.ws]
                        [] OTHER -> s1
       IN  Commit([s2 EXCEPT !.res = IF s1.failed THEN "send_error" ELSE "sent"],
                  "send", i)

\* --------------------------------------------------------- incoming frames
\* A decoded frame.  kind: the op, or the type of an action event, or "other"
\* for a frame that does not decode or has no handled discriminant.  id: the
\* topic, service id or action id it carries ("" when absent).  ok: result of
\* a service_response / cancel_action_result, absence of error in an
\* action_result, status 0 in a result event.
Messages ==
    [kind : {"publish"}, id : Topics, session : {""}, ok : {TRUE}]
    \cup [kind : {"service_response"}, id : SvcIds, session : {""}, ok : BOOLEAN]
    \cup [kind : {"cancel_action_result"}, id : Actions \cup {""},
          session : Sessions \cup {NoSession}, ok : BOOLEAN]
    \cup [kind : {"action_result", "result"}, id : ActIds \cup {""},
          session : Sessions \cup {NoSession}, ok : BOOLEAN]
    \cup [kind : {"request", "feedback", "error"}, id : ActIds \cup {""},
          session : Sessions \cup {NoSession}, ok : {TRUE}]
    \cup [kind : {"other"}, id : {""}, session : {""}, ok : {TRUE}]

\* findPendingAction whose fallback takes any pending action when the frame
\* names none.
findPendingAction_anyPending(s, id, session) ==
    LET held == {a \in ActIds : s.pendingActions[a] # 0}
    IN  IF id # "" /\ s.pendingActions[id] # 0 THEN s.pendingActions[id]
        ELSE IF session # NoSession /\ s.actionIdBySession[session] # ""
             THEN s.pendingActions[s.actionIdBySession[session]]
        ELSE IF held # {}
             THEN s.pendingActions[CHOOSE a \in held : TRUE]
        ELSE 0

findPendingAction(s, id, session) ==
    LET held == {a \in ActIds : s.pendingActions[a] # 0}
    IN  IF id # "" /\ s.pendingActions[id] # 0 THEN s.pendingActions[id]
        ELSE IF session # NoSession /\ s.actionIdBySession[session] # ""
             THEN s.pendingActions[s.actionIdBySession[session]]
        ELSE IF Cardinality(held) = 1
             THEN s.pendingActions[CHOOSE a \in held : TRUE]
        ELSE 0

\* finishPendingAction that clears the timeout but deletes nothing.
finishPendingAction_keepsEntry(s, id) ==
    LET i == s.pendingActions[id]
    IN  IF i = 0 THEN s ELSE [s EXCEPT !.goals = Disarm(@, i)]

finishPendingAction(s, id) ==
    LET i == s.pendingActions[id]
        x == IF i = 0 THEN NoSession ELSE s.goals[i].session
        s1 == [s EXCEPT !.goals = Disarm(@, i), !.pendingActions[id] = 0]
    IN  IF i = 0 THEN s
        ELSE IF x # NoSession THEN [s1 EXCEPT !.actionIdBySession[x] = ""]
        ELSE s1

Hook(s, name, i) == [s EXCEPT !.dispatched = @ \cup {<<name, i>>}]

handleMessage(s, m) ==
    CASE m.kind = "publish" ->
            LET k == IndexOf(s.subscriptions, m.id)
            IN  IF k = 0 THEN s
                ELSE [s EXCEPT
                        !.dispatched =
                            @ \cup {<<cb, m.id>> : cb \in Range(s.subscriptions[k].callbacks)},
                        !.invoked = @ \o s.subscriptions[k].callbacks]
      [] m.kind = "service_response" ->
            LET i == s.pendingCalls[m.id]
            IN  IF i = 0 THEN s
                ELSE [s EXCEPT
                        !.calls = Settle(Disarm(@, i), i,
                                         IF m.ok THEN "resolved" ELSE "rejected",
                                         "response"),
                        !.pendingCalls[m.id] = 0]
      [] m.kind = "cancel_action_result" ->
            LET key == CancelKey(m.id, m.session)
                i == IF key \in CancelKeys THEN s.pendingActionCancels[key] ELSE 0
            IN  IF i = 0 THEN s
                ELSE [s EXCEPT
                        !.cancels = Settle(Disarm(@, i), i,
                                           IF m.ok THEN "resolved" ELSE "rejected",
                                           "response"),
                        !.pendingActionCancels[key] = 0]
      [] m.kind = "action_result" ->
            LET i == findPendingAction(s, m.id, m.session)
            IN  IF i = 0 THEN s
                ELSE [finishPendingAction(s, s.goals[i].id) EXCEPT
                        !.goals = Settle(@, i,
                                         IF m.ok THEN "resolved" ELSE "rejected",
                                         "action_result")]
      [] m.kind \in {"request", "feedback", "result", "error"} ->
            LET i == findPendingAction(s, m.id, m.session)
            IN  IF i = 0 THEN s
                ELSE IF m.kind = "request" THEN Hook(s, "onRequest", i)
                ELSE IF m.kind = "feedback" THEN Hook(s, "onFeedback", i)
                ELSE IF m.kind = "result"
                THEN [finishPendingAction(Hook(s, "onResult", i), s.goals[i].id)
                        EXCEPT !.goals = Settle(@, i,
                                IF m.ok THEN "resolved" ELSE "rejected", "result")]
                ELSE [finishPendingAction(s, s.goals[i].id) EXCEPT
                        !.goals = Settle(@, i, "rejected", "error")]
      [] OTHER -> s

\* ws.onmessage, lines 394-399, with the dispatch of handleMessage.
onmessage(g, m) ==
    /\ g \in 1..Len(sockets)
    /\ Newest(g) => transport.opened /\ ~transport.closed
    /\ LET s1 == [State EXCEPT !.frame = m]
       IN  IF g # activeSocketGeneration THEN Commit(s1, "onmessage", g)
           ELSE Commit(handleMessage(s1, m), "onmessage", g)

\* ---------------------------------------------------------- specifications
TestOptions ==
    [enabled |-> TRUE, hasShouldRetry |-> FALSE, initialDelayMs |-> 100,
     maxDelayMs |-> 1000, mulNum |-> 2, mulDen |-> 1, jitNum |-> 0, jitDen |-> 1,
     timeoutMs |-> <<>>, builds |-> <<"envelope">>]

\* The codec before it is given anything.
NoWork == [phase |-> "idle", value |-> <<>>, bytes |-> <<>>, out |-> <<>>]

InitAll(opts, lim, work) ==
    /\ codec \in work
    /\ ws = 0
    /\ socketGeneration = 0
    /\ activeSocketGeneration = 0
    /\ wsUrl = NoUrl
    /\ manualClose = FALSE
    /\ connectInFlight = 0
    /\ reconnectAttempt = 0
    /\ reconnectTimer = 0
    /\ pendingCalls = [id \in SvcIds |-> 0]
    /\ pendingActions = [id \in ActIds |-> 0]
    /\ actionIdBySession = [x \in Sessions |-> ""]
    /\ pendingActionCancels = [k \in CancelKeys |-> 0]
    /\ subscriptions = <<>>
    /\ advertisedTopics = <<>>
    /\ options \in opts
    /\ sockets = <<>>
    /\ transport = NewTransport
    /\ timers = {}
    /\ calls = <<>>
    /\ goals = <<>>
    /\ cancels = <<>>
    /\ tasks = {}
    /\ limits \in lim
    /\ step = [op |-> "new", gen |-> 0, notes |-> {}, sched |-> {}, asked |-> {},
               factory |-> 0,
               dispatched |-> {}, invoked |-> <<>>, res |-> "", frame |-> NoFrame]

InitWith(opts, lim) == InitAll(opts, lim, {NoWork})

\* reconnect.enabled and the presence of shouldRetry are the constructor's choice.
ConnOptions ==
    {[TestOptions EXCEPT !.enabled = e, !.hasShouldRetry = r] :
        e \in BOOLEAN, r \in BOOLEAN}

\* log: whether the transports keep the envelopes they were given.
\* frames: the frames the transports deliver.
Limits(s, a, c, g, k, t, log, frames) ==
    [sockets |-> s, attempts |-> a, calls |-> c, goals |-> g, cancels |-> k,
     tasks |-> t, log |-> log, order |-> FALSE, frames |-> frames]

\* The envelopes handed to send(), oldest transport first, and how many there
\* are, the suspended sends counted in.
RECURSIVE WireUpTo(_)
WireUpTo(n) == IF n = 0 THEN <<>> ELSE WireUpTo(n - 1) \o sockets[n].wire
Handovers == Len(WireUpTo(Len(sockets))) + Cardinality(tasks)

\* The same caps, with the envelopes logged in the order send() took them.
Ordered(lim) == [lim EXCEPT !.order = TRUE]

Connect ==
    \E url \in Urls, ch \in Chances(Retries, {TRUE}, BOOLEAN, {FALSE}) :
        connect(url, ch)
Close == close
ReconnectTimerFired ==
    \E t \in timers, ch \in Chances(Retries, Retries, BOOLEAN, {FALSE}) :
        reconnectTimerFired(t, ch)
\* Events of the newest transport.
OnOpen ==
    \E ch \in Chances(Retries, Retries, {FALSE}, {FALSE}) : onopen(Len(sockets), ch)
OnError ==
    \E ch \in Chances(Retries, Retries, {FALSE}, {FALSE}) : onerror(Len(sockets), ch)
OnClose ==
    \E ch \in Chances(Retries, {TRUE}, {FALSE}, {FALSE}) : onclose(Len(sockets), ch)
OnMessage == \E m \in limits.frames : onmessage(Len(sockets), m)
\* Events of a transport that has been replaced.
Older == 1..(Len(sockets) - 1)
StaleOpen ==
    \E g \in Older, ch \in Chances(Retries, Retries, {FALSE}, {FALSE}) : onopen(g, ch)
StaleError ==
    \E g \in Older, ch \in Chances(Retries, Retries, {FALSE}, {FALSE}) : onerror(g, ch)
StaleClose ==
    \E g \in Older, ch \in Chances(Retries, {TRUE}, {FALSE}, {FALSE}) : onclose(g, ch)
StaleMessage == \E g \in Older, m \in limits.frames : onmessage(g, m)
ReplayStep ==
    \E g \in 1..Len(sockets), ch \in Chances(Retries, Retries, {FALSE}, BOOLEAN) :
        replayStep(g, ch)
Subscribe ==
    \E topic \in Topics, type \in Types, comp \in Compressions, cb \in Callbacks :
        subscribe(topic, type, comp, cb)
Unsubscribe == \E topic \in Topics : unsubscribe(topic)
Advertise == \E topic \in Topics, type \in Types : advertise(topic, type)
Publish == \E topic \in Topics : publish(topic)
CallService == \E id \in SvcIds, timer \in BOOLEAN : callService(id, timer)
CallTimeout == \E i \in 1..Len(calls) : callTimeout(i)
SendActionGoal ==
    \E id \in ActIds, x \in Sessions \cup {NoSession}, timer \in BOOLEAN :
        sendActionGoal(id, x, timer)
GoalTimeout == \E i \in 1..Len(goals) : goalTimeout(i)
CancelActionGoal ==
    \E a \in Actions, x \in Sessions \cup {NoSession}, timer \in BOOLEAN :
        cancelActionGoal(a, x, timer)
CancelTimeout == \E i \in 1..Len(cancels) : cancelTimeout(i)
TaskRun ==
    \E task \in tasks, ch \in Chances({TRUE}, {TRUE}, {FALSE}, BOOLEAN) :
        taskRun(task, ch)

\* The application subscribes to one topic before it connects: the send fails,
\* the entry is recorded, and every later open has an entry to replay.
SubscribeEarly == Len(sockets) = 0 /\ subscribe("t1", "T1", "none", "cb1")

\* The connection life cycle with the replay of subscriptions and
\* advertisements: every entry point of scheduleReconnect.
Init ==
    InitWith(ConnOptions,
             {Limits(MaxSockets, MaxAttempt, 0, 0, 0, MaxTasks, FALSE,
                     {m \in Messages : m.kind = "publish" /\ m.id = "t1"})})

Next ==
    \/ Connect \/ Close \/ ReconnectTimerFired
    \/ OnOpen \/ OnError \/ OnClose \/ OnMessage \/ ReplayStep
    \/ SubscribeEarly

Spec == Init /\ [][Next]_vars

\* sendActionGoal with an id no earlier goal of the behaviour used (a1 for the
\* first, a2 for the second), with or without a session id, timeoutMs > 0.
FreshIds == ActIds \ {goals[i].id : i \in 1..Len(goals)}
SendFreshGoal ==
    \E id \in FreshIds, x \in Sessions \cup {NoSession} :
        /\ id = "a1" \/ "a1" \notin FreshIds
        /\ sendActionGoal(id, x, TRUE)
\* cancelActionGoal with timeoutMs > 0.
CancelGoal == \E x \in Sessions \cup {NoSession} : cancelActionGoal("act", x, TRUE)

\* Every socket event of every transport, the newest and the replaced ones,
\* around connect(), close() and the reconnect timer, with an action goal
\* outstanding.
StaleFrames ==
    {m \in Messages :
        /\ m.kind \in {"result", "feedback"}
        /\ m.id = "a1" /\ m.session = NoSession /\ m.ok}

SendOneGoal == sendActionGoal("a1", NoSession, FALSE)

InitStale ==
    InitWith({TestOptions},
             {Limits(MaxSockets, 0, 0, MaxPending, 0, MaxTasks, FALSE, StaleFrames)})

NextStale ==
    \/ Connect \/ Close \/ ReconnectTimerFired
    \/ OnOpen \/ OnError \/ OnClose \/ OnMessage
    \/ StaleOpen \/ StaleError \/ StaleClose \/ StaleMessage
    \/ SendOneGoal \/ TaskRun

SpecStale == InitStale /\ [][NextStale]_vars

\* Action goals and cancels over connections that open, drop, are closed and
\* are replaced.
GoalFrames ==
    {m \in Messages :
        /\ m.kind \in {"result", "action_result", "error"}
        /\ m.id = "a1" /\ m.session = NoSession /\ m.ok}

InitGoals ==
    InitWith({TestOptions},
             {Limits(MaxSockets, 0, 0, MaxGoals, 0, MaxTasks, FALSE, GoalFrames)})

NextGoals ==
    \/ Connect \/ Close \/ ReconnectTimerFired
    \/ OnOpen \/ OnError \/ OnClose \/ OnMessage \/ StaleClose
    \/ SendFreshGoal \/ GoalTimeout \/ TaskRun

SpecGoals == InitGoals /\ [][NextGoals]_vars

\* An action goal and a cancel outstanding on a transport that the server
\* drops, that close() closes, or that connect() replaces.
DropFrames ==
    {m \in Messages :
        \/ m.kind = "result" /\ m.id = "a1" /\ m.session = NoSession /\ m.ok
        \/ m.kind = "cancel_action_result" /\ m.id = "act" /\ m.session = "x"
           /\ m.ok}

InitDrop ==
    InitWith({TestOptions},
             {Limits(MaxSockets, 0, 0, MaxPending, MaxCancels, MaxTasks, FALSE,
                     DropFrames)})

NextDrop ==
    \/ Connect \/ Close \/ ReconnectTimerFired
    \/ OnOpen \/ OnError \/ OnClose \/ OnMessage \/ StaleClose
    \/ SendFreshGoal \/ GoalTimeout
    \/ CancelGoal \/ CancelTimeout \/ TaskRun

SpecDrop == InitDrop /\ [][NextDrop]_vars

\* Service calls over connections that open, drop and are reopened.
CallFrames == {m \in Messages : m.kind = "service_response"}

InitCalls ==
    InitWith({TestOptions},
             {Limits(MaxSockets, 0, MaxPending, 0, 0, MaxTasks, FALSE, CallFrames)})

NextCalls ==
    \/ Connect \/ Close \/ ReconnectTimerFired
    \/ OnOpen \/ OnError \/ OnClose \/ OnMessage
    \/ CallService \/ CallTimeout \/ TaskRun

SpecCalls == InitCalls /\ [][NextCalls]_vars

\* close() with every table populated, and the replay of the next connect().
SubscribeOne == subscribe("t1", "T1", "none", "cb1")
AdvertiseOne == advertise("t2", "T2")
CallOne == callService("s1", FALSE)
SendGoalX == sendActionGoal("a1", "x", FALSE)
CancelOne == cancelActionGoal("act", "x", FALSE)

InitTables ==
    InitWith({TestOptions},
             {Limits(MaxSockets, 0, MaxPending, MaxPending, MaxPending, MaxTasks,
                     TRUE, {})})

NextTables ==
    \/ Connect \/ Close \/ OnOpen \/ ReplayStep
    \/ SubscribeOne \/ AdvertiseOne
    \/ CallOne \/ SendGoalX \/ CancelOne \/ TaskRun

SpecTables == InitTables /\ [][NextTables]_vars

\* Consecutive failures of the factory under every shape of the reconnect
\* options, jitterRatio 0: the delays computeReconnectDelayMs reports.
Multipliers == {<<2, 1>>, <<1, 1>>, <<3, 2>>, <<1, 2>>, <<0, 1>>, <<-1, 1>>}
DelayOptions ==
    {[TestOptions EXCEPT !.initialDelayMs = i, !.maxDelayMs = m,
                            !.mulNum = q[1], !.mulDen = q[2]] :
        i \in {-10, 0, 100}, m \in {50, 250, 1000}, q \in Multipliers}

InitDelay ==
    InitWith(DelayOptions, {Limits(0, MaxN, 0, 0, 0, 0, FALSE, {})})

NextDelay == Connect \/ ReconnectTimerFired

SpecDelay == InitDelay /\ [][NextDelay]_vars

\* The replay of the tables at every accepted open, with the application adding
\* topics before, during and after it; the envelopes are logged in order.
PublishFrames == {m \in Messages : m.kind = "publish" /\ m.id = "t1"}
SubscribeNew ==
    \E topic \in Topics :
        IndexOf(subscriptions, topic) = 0 /\ subscribe(topic, "T1", "none", "cb1")
AdvertiseNew ==
    \E topic \in Topics :
        topic = "t2" /\ IndexOf(advertisedTopics, topic) = 0 /\ advertise(topic, "T2")

InitReplay ==
    InitWith({TestOptions},
             {Ordered(Limits(MaxSockets, 0, 0, 0, 0, MaxTasks, FALSE, PublishFrames))})

NextReplay ==
    \/ Connect \/ ReconnectTimerFired
    \/ OnOpen \/ OnClose \/ OnMessage
    \/ ReplayStep
    \/ SubscribeNew \/ AdvertiseNew \/ TaskRun

SpecReplay == InitReplay /\ [][NextReplay]_vars

\* One topic subscribed, re-subscribed with another type or compression and
\* unsubscribed at any moment: disconnected, during a replay, connected.
SubscribeAgain ==
    /\ Handovers < MaxWire
    /\ \E type \in Types, comp \in Compressions : subscribe("t1", type, comp, "cb1")
UnsubscribeOne == Handovers < MaxWire /\ unsubscribe("t1")

InitResub ==
    InitWith({TestOptions},
             {Ordered(Limits(MaxSockets, 0, 0, 0, 0, MaxTasks, FALSE, {}))})

NextResub ==
    \/ Connect \/ ReconnectTimerFired
    \/ OnOpen \/ OnClose
    \/ ReplayStep
    \/ SubscribeAgain \/ UnsubscribeOne \/ TaskRun

SpecResub == InitResub /\ [][NextResub]_vars

\* subscribe() with every type, compression and callback on one topic, with and
\* without an entry, connected and not.
SubscribeAny ==
    /\ Handovers < MaxWire
    /\ \E type \in Types, comp \in Compressions, cb \in Callbacks :
            subscribe("t1", type, comp, cb)

InitSubscribe ==
    InitWith({TestOptions},
             {Ordered(Limits(MaxSockets, 0, 0, 0, 0, MaxTasks, FALSE, {}))})

NextSubscribe ==
    \/ Connect \/ OnOpen \/ OnClose \/ ReplayStep
    \/ SubscribeAny \/ UnsubscribeOne \/ TaskRun

SpecSubscribe == InitSubscribe /\ [][NextSubscribe]_vars

\* subscribe() called only while the transport is absent or not open, around
\* connect(), close() and the reconnect timer, with publish frames arriving.
SubscribeOffline ==
    ~sendCheck(State) /\ \E type \in Types : subscribe("t1", type, "none", "cb1")

InitOffline ==
    InitWith({TestOptions},
             {Ordered(Limits(MaxSockets, 0, 0, 0, 0, MaxTasks, FALSE, PublishFrames))})

NextOffline ==
    \/ Connect \/ Close \/ ReconnectTimerFired
    \/ OnOpen \/ OnError \/ OnClose \/ OnMessage
    \/ ReplayStep
    \/ SubscribeOffline

SpecOffline == InitOffline /\ [][NextOffline]_vars

\* Service calls that share an id, with and without a timeout, answered by
\* service_response frames with result true and false, on a connection that
\* opens, closes and is reopened by connect().
InitSettle ==
    InitWith({TestOptions},
             {Limits(MaxSockets, 0, MaxCalls, 0, 0, MaxTasks, FALSE, CallFrames)})

NextSettle ==
    \/ Connect \/ OnOpen \/ OnClose \/ OnMessage
    \/ CallService \/ CallTimeout \/ TaskRun

SpecSettle == InitSettle /\ [][NextSettle]_vars

\* Action goals with fresh ids, with and without a session, and every kind of
\* action event and action_result for them: addressed by id, by session only,
\* or not at all.
EventKinds == {"request", "feedback", "result", "error", "action_result"}
EventFrames ==
    {m \in Messages :
        /\ m.kind \in EventKinds
        /\ \/ m.id = "a1" /\ m.session = NoSession
           \/ m.id = "" /\ m.session = "x"
           \/ m.id = "" /\ m.session = NoSession}

InitEvents ==
    InitWith({TestOptions},
             {Limits(MaxSockets, 0, 0, MaxGoals, 0, MaxTasks, FALSE, EventFrames)})

NextEvents ==
    \/ Connect \/ OnOpen \/ OnClose \/ OnMessage
    \/ SendFreshGoal \/ GoalTimeout \/ TaskRun

SpecEvents == InitEvents /\ [][NextEvents]_vars

\* One action goal and a cancel for it, with cancel_action_result frames of
\* every key and result, and result events for the goal.
CancelFrames ==
    {m \in Messages :
        \/ m.kind = "cancel_action_result"
        \/ m.kind = "result" /\ m.id = "a1" /\ m.session = NoSession}
SendSessionGoal == \E x \in Sessions \cup {NoSession} : sendActionGoal("a1", x, TRUE)

InitCancel ==
    InitWith({TestOptions},
             {Limits(MaxSockets, 0, 0, MaxPending, MaxCancels, MaxTasks, FALSE,
                     CancelFrames)})

NextCancel ==
    \/ Connect \/ OnOpen \/ OnClose \/ OnMessage
    \/ SendSessionGoal \/ CancelGoal \/ CancelTimeout \/ TaskRun

SpecCancel == InitCancel /\ [][NextCancel]_vars

\* A timeoutMs option: <<>> when the option is absent, <<n>> for the number n.
TimeoutOpts == {<<>>, <<0>>, <<0 - 5>>, <<10>>}

\* `options.timeoutMs || this.options.timeoutMs`: a per-call 0 falls back too.
effectiveTimeout_orDefault(perCall, default) ==
    LET timeoutMs == IF perCall # <<>> /\ perCall # <<0>> THEN perCall ELSE default
    IN  timeoutMs # <<>> /\ timeoutMs[1] > 0

\* Lines 207-208, 243-244 and 290-291: `options.timeoutMs ?? this.options.timeoutMs`
\* is a number above zero, which is when setTimeout is called.
effectiveTimeout(perCall, default) ==
    LET timeoutMs == IF perCall # <<>> THEN perCall ELSE default
    IN  timeoutMs # <<>> /\ timeoutMs[1] > 0

\* One service call, one action goal and one cancel, each with any per-call
\* timeoutMs under any client default, their answers, their timers, and a
\* connection that opens and closes around them.
TimeoutOptions == {[TestOptions EXCEPT !.timeoutMs = d] : d \in TimeoutOpts}
TimeoutFrames ==
    {m \in Messages :
        /\ m.ok
        /\ \/ m.kind = "service_response"
           \/ m.kind = "result" /\ m.id = "a1" /\ m.session = NoSession
           \/ m.kind = "cancel_action_result" /\ m.id = "act" /\ m.session = NoSession}

CallTimed ==
    \E t \in TimeoutOpts : callService("s1", effectiveTimeout(t, options.timeoutMs))
GoalTimed ==
    \E t \in TimeoutOpts :
        sendActionGoal("a1", NoSession, effectiveTimeout(t, options.timeoutMs))
CancelTimed ==
    \E t \in TimeoutOpts :
        cancelActionGoal("act", NoSession, effectiveTimeout(t, options.timeoutMs))

InitTimeouts ==
    InitWith(TimeoutOptions,
             {Limits(MaxSockets, 0, MaxPending, MaxPending, MaxCancels, MaxTasks,
                     FALSE, TimeoutFrames)})

NextTimeouts ==
    \/ Connect \/ OnOpen \/ OnClose \/ OnMessage
    \/ CallTimed \/ GoalTimed \/ CancelTimed
    \/ CallTimeout \/ GoalTimeout \/ CancelTimeout \/ TaskRun

SpecTimeouts == InitTimeouts /\ [][NextTimeouts]_vars

\* A timer that setTimeout armed and nothing cleared fires.
SpecTimeoutsFair ==
    /\ SpecTimeouts
    /\ WF_vars(CallTimeout) /\ WF_vars(GoalTimeout) /\ WF_vars(CancelTimeout)

\* Two callbacks registered in any order, again and again, on two topics, and
\* publish frames for both topics, with and without an entry.
DispatchFrames == {m \in Messages : m.kind = "publish"}
SubscribeCallback ==
    \E topic \in Topics, cb \in Callbacks : subscribe(topic, "T1", "none", cb)

InitDispatch ==
    InitWith({TestOptions},
             {Limits(MaxSockets, 0, 0, 0, 0, MaxTasks, FALSE, DispatchFrames)})

NextDispatch ==
    \/ Connect \/ OnOpen \/ OnClose \/ OnMessage \/ ReplayStep
    \/ SubscribeCallback \/ Unsubscribe \/ TaskRun

SpecDispatch == InitDispatch /\ [][NextDispatch]_vars

\* subscribe() of either topic when it has no entry, unsubscribe() of t1,
\* publish frames for t1, and connections that replay the table.
InitUnsub ==
    InitWith({TestOptions},
             {Ordered(Limits(MaxSockets, 0, 0, 0, 0, MaxTasks, FALSE, PublishFrames))})

NextUnsub ==
    \/ Connect \/ OnOpen \/ OnClose \/ OnMessage \/ ReplayStep
    \/ SubscribeNew \/ UnsubscribeOne \/ TaskRun

SpecUnsub == InitUnsub /\ [][NextUnsub]_vars

\* ----------------------------------------------------------------- the codec
\* A JavaScript value as the CBOR codec sees it: <<"null">>, <<"bool", b>>,
\* <<"int", negative, digits>>, <<"str", code points>>, <<"bytes", bytes>>,
\* <<"arr", items>>, <<"obj", entries>> with entries <<key, value>> in property
\* order, and <<"undef">> for undefined.  A non-negative integer is the sequence
\* of its base-256 digits, most significant first and without leading zeros,
\* so that every safe integer, up to 2^53 - 1, has its exact value.
RECURSIVE Strip(_)
Strip(d) == IF d # <<>> /\ d[1] = 0 THEN Strip(Tail(d)) ELSE d
RECURSIVE Pad(_, _)
Pad(d, n) == IF Len(d) >= n THEN d ELSE Pad(<<0>> \o d, n)
RECURSIVE DigitsOf(_)
DigitsOf(n) == IF n = 0 THEN <<>> ELSE DigitsOf(n \div 256) \o <<n % 256>>
RECURSIVE NumberOf(_)
NumberOf(d) ==
    IF d = <<>> THEN 0 ELSE (NumberOf(SubSeq(d, 1, Len(d) - 1)) * 256) + d[Len(d)]
RECURSIVE IncDigits(_)
IncDigits(d) ==
    IF d = <<>> THEN <<1>>
    ELSE IF d[Len(d)] < 255 THEN [d EXCEPT ![Len(d)] = @ + 1]
    ELSE IncDigits(SubSeq(d, 1, Len(d) - 1)) \o <<0>>
RECURSIVE DecDigits(_)
DecDigits(d) ==
    IF d[Len(d)] > 0 THEN Strip([d EXCEPT ![Len(d)] = @ - 1])
    ELSE DecDigits(SubSeq(d, 1, Len(d) - 1)) \o <<255>>
RECURSIVE LexLeq(_, _)
LexLeq(a, b) ==
    \/ a = <<>>
    \/ a[1] < b[1]
    \/ a[1] = b[1] /\ LexLeq(Tail(a), Tail(b))
Leq(a, b) == Len(a) < Len(b) \/ (Len(a) = Len(b) /\ LexLeq(a, b))

MAX_SAFE_INTEGER == <<31, 255, 255, 255, 255, 255, 255>>
Ones(n) == [i \in 1..n |-> 255]

\* TextEncoder.encode and TextDecoder.decode, UTF-8, for the code points of the
\* basic plane.  The decoder of line 2 is built with no options: it removes a
\* byte order mark that leads the input, and yields U+FFFD for a malformed byte.
BOM == (254 * 256) + 255    \* U+FEFF
Utf8(cp) ==
    IF cp < 128 THEN <<cp>>
    ELSE IF cp < 2048 THEN <<192 + (cp \div 64), 128 + (cp % 64)>>
    ELSE <<224 + (cp \div 4096), 128 + ((cp \div 64) % 64), 128 + (cp % 64)>>
RECURSIVE TextEncode(_)
TextEncode(s) == IF s = <<>> THEN <<>> ELSE Utf8(s[1]) \o TextEncode(Tail(s))
Continues(b, i) == i <= Len(b) /\ b[i] \in 128..191
RECURSIVE Utf8Decode(_, _)
Utf8Decode(b, i) ==
    IF i > Len(b) THEN <<>>
    ELSE IF b[i] < 128 THEN <<b[i]>> \o Utf8Decode(b, i + 1)
    ELSE IF b[i] \in 192..223 /\ Continues(b, i + 1)
    THEN <<((b[i] - 192) * 64) + (b[i + 1] - 128)>> \o Utf8Decode(b, i + 2)
    ELSE IF b[i] \in 224..239 /\ Continues(b, i + 1) /\ Continues(b, i + 2)
    THEN <<((b[i] - 224) * 4096) + ((b[i + 1] - 128) * 64) + (b[i + 2] - 128)>>
         \o Utf8Decode(b, i + 3)
    ELSE <<65533>> \o Utf8Decode(b, i + 1)
TextDecode(b) ==
    LET s == Utf8Decode(b, 1)
    IN  IF s # <<>> /\ s[1] = BOM THEN Tail(s) ELSE s

\* encodeTypeAndLength, lines 10-62: the head byte and the big-endian length.
encodeTypeAndLength(majorType, length) ==
    LET major == majorType * 32
    IN  IF Leq(length, <<23>>) THEN <<major + NumberOf(length)>>
        ELSE IF Leq(length, Ones(1)) THEN <<major + 24>> \o length
        ELSE IF Leq(length, Ones(2)) THEN <<major + 25>> \o Pad(length, 2)
        ELSE IF Leq(length, Ones(4)) THEN <<major + 26>> \o Pad(length, 4)
        ELSE <<major + 27>> \o Pad(length, 8)

\* encodeValue, lines 84-131.
RECURSIVE encodeValue(_)
RECURSIVE encodeItems(_)
RECURSIVE encodeEntries(_)
encodeItems(items) ==
    IF items = <<>> THEN <<>> ELSE encodeValue(items[1]) \o encodeItems(Tail(items))
encodeEntries(entries) ==
    IF entries = <<>> THEN <<>>
    ELSE encodeValue(<<"str", entries[1][1]>>) \o encodeValue(entries[1][2])
         \o encodeEntries(Tail(entries))
encodeValue(value) ==
    CASE value[1] = "null" -> <<224 + 22>>
      [] value[1] = "bool" -> <<224 + (IF value[2] THEN 21 ELSE 20)>>
      [] value[1] = "int" ->
            IF ~value[2] THEN encodeTypeAndLength(0, value[3])
            ELSE encodeTypeAndLength(1, DecDigits(value[3]))
      [] value[1] = "str" ->
            LET encoded == TextEncode(value[2])
            IN  encodeTypeAndLength(3, DigitsOf(Len(encoded))) \o encoded
      [] value[1] = "bytes" ->
            encodeTypeAndLength(2, DigitsOf(Len(value[2]))) \o value[2]
      [] value[1] = "arr" ->
            encodeTypeAndLength(4, DigitsOf(Len(value[2]))) \o encodeItems(value[2])
      [] value[1] = "obj" ->
            LET entries == SelectSeq(value[2], LAMBDA e : e[2] # <<"undef">>)
            IN  encodeTypeAndLength(5, DigitsOf(Len(entries))) \o encodeEntries(entries)

\* The Reader, lines 133-290.  A read is <<what was read, the next offset>>,
\* offsets counted from 1; Failed is a read that threw.  The floats of major
\* type 7 are read as <<"float">>: no value here is encoded as one.
Failed == <<<<"error">>, 0>>
IsFailed(r) == r[2] = 0

readLength(bytes, offset, additionalInfo) ==
    LET width == CASE additionalInfo = 24 -> 1 [] additionalInfo = 25 -> 2
                   [] additionalInfo = 26 -> 4 [] additionalInfo = 27 -> 8
                   [] OTHER -> 0
        value == Strip(SubSeq(bytes, offset, offset + width - 1))
    IN  IF additionalInfo < 24 THEN <<DigitsOf(additionalInfo), offset>>
        ELSE IF width = 0 \/ offset + width - 1 > Len(bytes) THEN Failed
        ELSE IF width = 8 /\ ~Leq(value, MAX_SAFE_INTEGER) THEN Failed
        ELSE <<value, offset + width>>

\* `out[String(key)] = val` on an object literal: the key __proto__ reaches the
\* setter of Object.prototype and makes no property.
Proto == <<95, 95, 112, 114, 111, 116, 111, 95, 95>>
Assign(out, key, val) ==
    IF key = Proto THEN out
    ELSE IF \E i \in 1..Len(out) : out[i][1] = key
    THEN [i \in 1..Len(out) |-> IF out[i][1] = key THEN <<key, val>> ELSE out[i]]
    ELSE Append(out, <<key, val>>)

RECURSIVE decode(_, _)
RECURSIVE decodeItems(_, _, _, _)
RECURSIVE decodeEntries(_, _, _, _)
decodeItems(bytes, offset, n, out) ==
    IF n = 0 THEN <<<<"arr", out>>, offset>>
    ELSE LET item == decode(bytes, offset)
         IN  IF IsFailed(item) THEN Failed
             ELSE decodeItems(bytes, item[2], n - 1, Append(out, item[1]))
decodeEntries(bytes, offset, n, out) ==
    IF n = 0 THEN <<<<"obj", out>>, offset>>
    ELSE LET key == decode(bytes, offset)
             val == decode(bytes, key[2])
         IN  IF IsFailed(key) \/ key[1][1] # "str" THEN Failed
             ELSE IF IsFailed(val) THEN Failed
             ELSE decodeEntries(bytes, val[2], n - 1, Assign(out, key[1][2], val[1]))
decode(bytes, offset) ==
    IF offset > Len(bytes) THEN Failed
    ELSE LET majorType == bytes[offset] \div 32
             additional == bytes[offset] % 32
             length == readLength(bytes, offset + 1, additional)
             \* a length that the payload cannot hold ends in a failed read
             count == IF Len(length[1]) > 2 THEN Len(bytes) + 1
                      ELSE NumberOf(length[1])
         IN  IF majorType = 7
             THEN CASE additional = 20 -> <<<<"bool", FALSE>>, offset + 1>>
                    [] additional = 21 -> <<<<"bool", TRUE>>, offset + 1>>
                    [] additional \in {22, 23} -> <<<<"null">>, offset + 1>>
                    [] additional \in {25, 26, 27} ->
                        LET width == CASE additional = 25 -> 2 [] additional = 26 -> 4
                                       [] OTHER -> 8
                        IN  IF offset + width > Len(bytes) THEN Failed
                            ELSE <<<<"float">>, offset + 1 + width>>
                    [] OTHER -> Failed
             ELSE IF IsFailed(length) THEN Failed
             ELSE CASE majorType = 0 -> <<<<"int", FALSE, length[1]>>, length[2]>>
                    [] majorType = 1 -> <<<<"int", TRUE, IncDigits(length[1])>>, length[2]>>
                    [] majorType \in {2, 3} ->
                        IF length[2] + count - 1 > Len(bytes) THEN Failed
                        ELSE LET read == SubSeq(bytes, length[2], length[2] + count - 1)
                             IN  <<IF majorType = 2 THEN <<"bytes", read>>
                                   ELSE <<"str", TextDecode(read)>>,
                                   length[2] + count>>
                    [] majorType = 4 -> decodeItems(bytes, length[2], count, <<>>)
                    [] majorType = 5 -> decodeEntries(bytes, length[2], count, <<>>)
                    [] majorType = 6 -> decode(bytes, length[2])

\* decodeCbor that returns the first item and does not look at what follows.
decodeCbor_noTrailing(input) ==
    LET decoded == decode(input, 1)
    IN  IF IsFailed(decoded) THEN <<"error">> ELSE decoded[1]

\* decodeCbor, lines 283-291.
decodeCbor(input) ==
    LET decoded == decode(input, 1)
    IN  IF IsFailed(decoded) \/ decoded[2] # Len(input) + 1 THEN <<"error">>
        ELSE decoded[1]

\* The values the codec is given: integers at both ends of every length class
\* and of either sign, strings of one-, two- and three-byte code points, with a
\* byte order mark and without, byte buffers, arrays and objects of them.
Magnitudes ==
    {<<>>, <<1>>, <<23>>, <<24>>, <<25>>, Ones(1), <<1, 0>>, <<1, 1>>, Ones(2),
     <<1, 0, 0>>, <<1, 0, 1>>, <<128, 0, 0, 0>>, Ones(4), <<1, 0, 0, 0, 0>>,
     <<1, 0, 0, 0, 1>>, MAX_SAFE_INTEGER}
Integers ==
    {<<"int", FALSE, d>> : d \in Magnitudes}
    \cup {<<"int", TRUE, d>> : d \in Magnitudes \ {<<>>}}
Letters(n) == [i \in 1..n |-> 97]
Texts ==
    {<<>>, <<97>>, <<233>>, <<8364, 97>>, Letters(23), Letters(24),
     <<BOM, 97>>, <<97, BOM>>, Proto}
Buffers ==
    {<<>>, <<0>>, <<255, 0, 128>>, [i \in 1..24 |-> i], [i \in 1..256 |-> i - 1]}
Scalars ==
    {<<"null">>, <<"bool", TRUE>>, <<"bool", FALSE>>}
    \cup Integers \cup {<<"str", s>> : s \in Texts} \cup {<<"bytes", b>> : b \in Buffers}
Few ==
    {<<"null">>, <<"bool", TRUE>>, <<"int", FALSE, <<24>>>>, <<"int", TRUE, <<1, 0>>>>,
     <<"str", <<233>>>>, <<"bytes", <<0>>>>}
Keys == {<<107>>, <<233, 97>>}
Arrays ==
    {<<"arr", <<>>>>, <<"arr", [i \in 1..24 |-> <<"null">>]>>}
    \cup {<<"arr", <<a>>>> : a \in Few}
    \cup {<<"arr", <<a, <<"arr", <<b>>>>>>>> : a, b \in Few}
Objects ==
    {<<"obj", <<>>>>}
    \cup {<<"obj", <<<<k, a>>>>>> : k \in Keys, a \in Few \cup {<<"undef">>}}
    \cup {<<"obj", <<<<<<107>>, a>>, <<<<233, 97>>, b>>>>>> :
            a \in Few \cup {<<"undef">>}, b \in {<<"undef">>, <<"arr", <<>>>>, <<"str", <<97>>>>}}
    \cup {<<"obj", <<<<<<107>>, <<"obj", <<<<k, a>>>>>>>>>>>> : k \in Keys, a \in Few}
    \cup {<<"obj", <<<<<<107>>, <<"null">>>>, <<Proto, a>>>>>> :
            a \in {<<"int", FALSE, <<1>>>>, <<"obj", <<>>>>}}
    \cup {<<"obj", <<<<<<BOM, 107>>, <<"null">>>>>>>>}
CborValues == Scalars \cup Arrays \cup Objects

\* encodeCbor and decodeCbor applied in turn to one value.
EncodeCbor ==
    /\ codec.phase = "value"
    /\ codec' = [codec EXCEPT !.phase = "encoded", !.bytes = encodeValue(codec.value)]
    /\ UNCHANGED client
DecodeCbor ==
    /\ codec.phase = "encoded"
    /\ codec' = [codec EXCEPT !.phase = "decoded", !.out = decodeCbor(codec.bytes)]
    /\ UNCHANGED client

InitCbor ==
    InitAll({TestOptions}, {Limits(0, 0, 0, 0, 0, 0, FALSE, {})},
            {[NoWork EXCEPT !.phase = "value", !.value = v] : v \in CborValues})

NextCbor == EncodeCbor \/ DecodeCbor

SpecCbor == InitCbor /\ [][NextCbor]_vars

\* An encoding made malformed: cut short, followed by bytes that belong to no
\* item, or with the additional info of its first byte, alone or as the one
\* item of an array, replaced by a reserved one.
Extras == {<<0>>, <<255>>, <<246>>, <<0, 0>>, <<129, 0>>}
Truncate ==
    /\ codec.phase = "encoded"
    /\ \E n \in 0..(Len(codec.bytes) - 1) :
            codec' = [codec EXCEPT !.phase = "damaged", !.bytes = SubSeq(@, 1, n)]
    /\ UNCHANGED client
Extend ==
    /\ codec.phase = "encoded"
    /\ \E extra \in Extras :
            codec' = [codec EXCEPT !.phase = "damaged", !.bytes = @ \o extra]
    /\ UNCHANGED client
Reserve ==
    /\ codec.phase = "encoded"
    /\ \E additional \in 28..31, inArray \in BOOLEAN :
            codec' = [codec EXCEPT
                        !.phase = "damaged",
                        !.bytes = (IF inArray THEN <<129>> ELSE <<>>)
                                  \o <<((@[1] \div 32) * 32) + additional>> \o Tail(@)]
    /\ UNCHANGED client
DecodeDamaged ==
    /\ codec.phase = "damaged"
    /\ codec' = [codec EXCEPT !.phase = "decoded", !.out = decodeCbor(codec.bytes)]
    /\ UNCHANGED client

NextMalformed == EncodeCbor \/ Truncate \/ Extend \/ Reserve \/ DecodeDamaged

SpecMalformed == InitCbor /\ [][NextMalformed]_vars

\* The codec option of the constructor: <<"absent">>, <<"name", n>> for one of
\* the three names, or <<"codec", c>> for a codec object.  A codec object is
\* told apart by ref, as objects are by identity; the built-in ones are jsonCodec,
\* cborCodec and autoCodec (src/unnamed/part_008, lines 19-64), a custom one may
\* carry any name and wrap any encoder and decoder.
CodecNames == {"json", "cbor", "auto"}
jsonCodec == [ref |-> 1, name |-> "json", encode |-> "json", decode |-> "json"]
cborCodec == [ref |-> 2, name |-> "cbor", encode |-> "cbor", decode |-> "cbor"]
autoCodec == [ref |-> 3, name |-> "auto", encode |-> "json", decode |-> "auto"]
BuiltIn == {jsonCodec, cborCodec, autoCodec}
CustomCodecs ==
    {[ref |-> 4 + (9 * (i - 1)) + (3 * (j - 1)) + (k - 1),
      name |-> <<"json", "cbor", "auto", "mine">>[i],
      encode |-> <<"json", "cbor", "text">>[j],
      decode |-> <<"json", "cbor", "auto">>[k]] :
        i \in 1..4, j \in 1..3, k \in 1..3}
CodecOptions ==
    {<<"absent">>} \cup {<<"name", n>> : n \in CodecNames}
    \cup {<<"codec", c>> : c \in BuiltIn \cup CustomCodecs}

\* A codec object is replaced by the built-in codec whose encoder it uses.
resolveCodec_byEncoder(codecOption) ==
    IF codecOption = <<"absent">> \/ codecOption = <<"name", "json">>
    THEN <<"codec", jsonCodec>>
    ELSE IF codecOption = <<"name", "cbor">> THEN <<"codec", cborCodec>>
    ELSE IF codecOption = <<"name", "auto">> THEN <<"codec", autoCodec>>
    ELSE IF codecOption[2].encode = "json" THEN <<"codec", jsonCodec>>
    ELSE IF codecOption[2].encode = "cbor" THEN <<"codec", cborCodec>>
    ELSE codecOption

\* resolveCodec, src/unnamed/part_008 lines 66-77.
resolveCodec(codecOption) ==
    IF codecOption = <<"absent">> \/ codecOption = <<"name", "json">>
    THEN <<"codec", jsonCodec>>
    ELSE IF codecOption = <<"name", "cbor">> THEN <<"codec", cborCodec>>
    ELSE IF codecOption = <<"name", "auto">> THEN <<"codec", autoCodec>>
    ELSE codecOption

\* The constructor resolves its option (client-core.ts:122); the application
\* hands the codec it got to a second client, which resolves it again.  The
\* first result is kept in out, the second in bytes.
Resolve ==
    /\ codec.phase = "option"
    /\ codec' = [codec EXCEPT !.phase = "resolved", !.out = resolveCodec(codec.value)]
    /\ UNCHANGED client
ResolveAgain ==
    /\ codec.phase = "resolved"
    /\ codec' = [codec EXCEPT !.phase = "again", !.bytes = resolveCodec(codec.out)]
    /\ UNCHANGED client

InitCodec ==
    InitAll({TestOptions}, {Limits(0, 0, 0, 0, 0, 0, FALSE, {})},
            {[NoWork EXCEPT !.phase = "option", !.value = o] : o \in CodecOptions})

NextCodec == Resolve \/ ResolveAgain

SpecCodec == InitCodec /\ [][NextCodec]_vars

\* Lines 677-679 in a replay: neither the protocol nor its fallback built an
\* envelope with an op, and sendWithProtocol throws after its await.
replayUnbuilt(g, ch) ==
    /\ g \in 1..Len(sockets)
    /\ sockets[g].rphase \in {"sub", "adv"}
    /\ Commit(replayFailed(State, g, ch), "replay", g)

ReplayUnbuilt ==
    \E g \in 1..Len(sockets), ch \in Chances(Retries, Retries, {FALSE}, {FALSE}) :
        replayUnbuilt(g, ch)
AdvertiseEarly == Len(sockets) = 0 /\ advertise("t2", "T2")

\* A subscription and an advertisement recorded before the first connect(), and
\* replays that fail at any entry: the transport closes or is dropped under
\* them, or no envelope can be built.
InitRebind ==
    InitWith(ConnOptions, {Limits(MaxSockets, 0, 0, 0, 0, MaxTasks, FALSE, {})})

NextRebind ==
    \/ Connect \/ Close \/ ReconnectTimerFired
    \/ OnOpen \/ OnError \/ OnClose
    \/ ReplayStep \/ ReplayUnbuilt
    \/ SubscribeEarly \/ AdvertiseEarly

SpecRebind == InitRebind /\ [][NextRebind]_vars

\* ------------------------------------------------------ decoded envelopes
\* What codec.decode made of a frame (line 469): decodes is FALSE when it
\* threw; otherwise the fields handleMessage reads, "" for a field the envelope
\* does not carry.
HandledOps == {"publish", "service_response", "cancel_action_result", "action_result"}
EventTypes == {"request", "feedback", "result", "error"}
Other == [kind |-> "other", id |-> "", session |-> "", ok |-> TRUE]

\* The chain of tests with the type field looked at before the op.
dispatchBranch_typeFirst(e) ==
    IF ~e.decodes THEN Other
    ELSE IF e.type \in EventTypes
    THEN [kind |-> e.type, id |-> IF e.id \in ActIds THEN e.id ELSE "",
          session |-> e.session, ok |-> e.ok]
    ELSE IF e.op = "publish"
    THEN IF e.topic \in Topics
         THEN [kind |-> "publish", id |-> e.topic, session |-> "", ok |-> TRUE]
         ELSE Other
    ELSE IF e.op = "service_response"
    THEN IF e.id \in SvcIds
         THEN [kind |-> "service_response", id |-> e.id, session |-> "", ok |-> e.ok]
         ELSE Other
    ELSE IF e.op = "cancel_action_result"
    THEN [kind |-> "cancel_action_result", id |-> e.action, session |-> e.session,
          ok |-> e.ok]
    ELSE IF e.op = "action_result"
    THEN [kind |-> "action_result", id |-> IF e.id \in ActIds THEN e.id ELSE "",
          session |-> e.session, ok |-> e.ok]
    ELSE Other

\* Lines 467-588: the catch of the decode, then the tests of parsed.op in the
\* order of the code, each branch ending in a return, then the test of
\* parsed.type.  A topic, service id or action id that no table can hold finds
\* no entry (lines 481, 496, 617).
dispatchBranch(e) ==
    IF ~e.decodes THEN Other
    ELSE IF e.op = "publish"
    THEN IF e.topic \in Topics
         THEN [kind |-> "publish", id |-> e.topic, session |-> "", ok |-> TRUE]
         ELSE Other
    ELSE IF e.op = "service_response"
    THEN IF e.id \in SvcIds
         THEN [kind |-> "service_response", id |-> e.id, session |-> "", ok |-> e.ok]
         ELSE Other
    ELSE IF e.op = "cancel_action_result"
    THEN [kind |-> "cancel_action_result", id |-> e.action, session |-> e.session,
          ok |-> e.ok]
    ELSE IF e.op = "action_result"
    THEN [kind |-> "action_result", id |-> IF e.id \in ActIds THEN e.id ELSE "",
          session |-> e.session, ok |-> e.ok]
    ELSE IF e.type \in EventTypes
    THEN [kind |-> e.type, id |-> IF e.id \in ActIds THEN e.id ELSE "",
          session |-> e.session, ok |-> e.ok]
    ELSE Other

\* ws.onmessage with the frame as the codec decodes it.
onenvelope(g, e) ==
    /\ g \in 1..Len(sockets)
    /\ Newest(g) => transport.opened /\ ~transport.closed
    /\ LET s1 == [State EXCEPT !.frame = e]
       IN  IF g # activeSocketGeneration THEN Commit(s1, "onmessage", g)
           ELSE Commit(handleMessage(s1, dispatchBranch(e)), "onmessage", g)

OnEnvelope == \E e \in limits.frames : onenvelope(Len(sockets), e)

\* Every envelope names the topic, the action and the session the tables know,
\* so that any branch that looked at it would find an entry.
Envelope(op, type, id) ==
    [decodes |-> TRUE, op |-> op, type |-> type, topic |-> "t1", action |-> "act",
     id |-> id, session |-> "x", ok |-> TRUE]
Undecodable == [Envelope("", "", "") EXCEPT !.decodes = FALSE]
\* The id an envelope carries: a service_response that of the call, any other
\* that of the goal.
IdFor(op) == IF op = "service_response" THEN "s1" ELSE "a1"
EnvelopeFrames ==
    {Undecodable}
    \cup {Envelope(op, "", "a1") : op \in {"error", "cli_response", ""}}
    \cup {Envelope("", "status", "a1")}
    \cup {Envelope(op, "", IdFor(op)) : op \in HandledOps}
    \cup {Envelope("", type, "a1") : type \in EventTypes}
    \cup {Envelope(op, type, IdFor(op)) :
            op \in HandledOps, type \in {"feedback", "result"}}

\* A subscription, a service call, an action goal and a cancel outstanding on an
\* open connection, and frames of every shape arriving.
InitFrames ==
    InitWith({TestOptions},
             {Limits(MaxSockets, 0, MaxPending, MaxPending, MaxPending, MaxTasks,
                     FALSE, EnvelopeFrames)})

NextFrames ==
    \/ Connect \/ OnOpen \/ OnClose \/ OnEnvelope
    \/ SubscribeOne \/ CallOne \/ SendOneGoal \/ CancelOne \/ TaskRun

SpecFrames == InitFrames /\ [][NextFrames]_vars

\* ------------------------------------------- callbacks that call the client
\* What a subscription callback does when it is invoked: nothing, subscribe()
\* for the topic of the message with another callback, or unsubscribe() of that
\* topic.  Both run up to their first await inside the callback.
Deeds == {<<"none">>, <<"unsubscribe">>} \cup {<<"subscribe", cb>> : cb \in Callbacks}

\* subscribe(), lines 162-184, up to its await.  With an entry, the callback is
\* added to the Set of the entry; called here with the type and compression of
\* the entry, it returns at line 168.
subscribeWithin(s, topic, cb) ==
    LET k == IndexOf(s.subscriptions, topic)
    IN  IF k # 0
        THEN [s EXCEPT !.subscriptions[k].callbacks = AddOnce(@, cb), !.res = "ok"]
        ELSE sendWithProtocol(
                [s EXCEPT !.subscriptions =
                    Append(@, [topic |-> topic, type |-> "T1", compression |-> "none",
                               callbacks |-> <<cb>>])],
                TopicTask(s, "subscribe", topic, "T1", "none"))

\* unsubscribe(), lines 188-189, up to its await.
unsubscribeWithin(s, topic) ==
    LET k == IndexOf(s.subscriptions, topic)
        s1 == IF k = 0 THEN s
              ELSE [s EXCEPT
                     !.subscriptions = RemoveAt(@, k),
                     !.sockets = [g \in 1..Len(s.sockets) |->
                         IF s.sockets[g].rphase = "sub" /\ s.sockets[g].rpos >= k
                         THEN [s.sockets[g] EXCEPT
                                 !.rpos = @ - 1,
                                 !.rlive = @ /\ s.sockets[g].rtopic # topic]
                         ELSE s.sockets[g]]]
    IN  sendWithProtocol(s1, TopicTask(s1, "unsubscribe", topic, "", ""))

\* Lines 484-486: `for (const callback of subscription.callbacks)`.  The loop
\* runs on the Set itself, and the iterator of a Set reaches the values added
\* while it runs.  held is the Set of the entry the loop took at line 480; live
\* tells whether that entry is still the one in the table, so that a subscribe()
\* from a callback adds to this Set and not to the Set of a new entry.
RECURSIVE dispatchCallbacks(_, _, _, _, _, _)
dispatchCallbacks(s, held, live, pos, topic, does) ==
    IF pos > Len(held) THEN s
    ELSE LET cb == held[pos]
             s1 == [s EXCEPT !.invoked = Append(@, cb),
                             !.dispatched = @ \cup {<<cb, topic>>}]
             k == IndexOf(s1.subscriptions, topic)
         IN  CASE does[cb][1] = "subscribe" ->
                    LET s2 == subscribeWithin(s1, topic, does[cb][2])
                    IN  dispatchCallbacks(s2,
                            IF live /\ k # 0 THEN s2.subscriptions[k].callbacks ELSE held,
                            live, pos + 1, topic, does)
               [] does[cb][1] = "unsubscribe" ->
                    dispatchCallbacks(unsubscribeWithin(s1, topic), held, FALSE,
                                      pos + 1, topic, does)
               [] OTHER -> dispatchCallbacks(s1, held, live, pos + 1, topic, does)

\* ws.onmessage with a publish frame whose callbacks call the client.  The
\* frame is recorded with what each callback does.
onpublish(g, topic, does) ==
    /\ g \in 1..Len(sockets)
    /\ Newest(g) => transport.opened /\ ~transport.closed
    /\ tasks = {}
    /\ LET s1 == [State EXCEPT !.frame =
                    [kind |-> "publish", id |-> topic, session |-> "", ok |-> TRUE,
                     does |-> does]]
           k == IndexOf(subscriptions, topic)
       IN  IF g # activeSocketGeneration \/ k = 0 THEN Commit(s1, "onmessage", g)
           ELSE Commit(dispatchCallbacks(s1, subscriptions[k].callbacks, TRUE, 1,
                                         topic, does),
                       "onmessage", g)

OnPublish == \E does \in [Callbacks -> Deeds] : onpublish(Len(sockets), "t1", does)
SubscribeT1 == \E cb \in Callbacks : subscribe("t1", "T1", "none", cb)

\* One topic with one or two callbacks, registered in either order, publish
\* frames for it, and callbacks that subscribe and unsubscribe while a frame
\* is being dispatched.
InitReenter ==
    InitWith({TestOptions}, {Limits(MaxSockets, 0, 0, 0, 0, MaxTasks, FALSE, {})})

NextReenter ==
    \/ Connect \/ OnOpen \/ OnClose \/ ReplayStep
    \/ SubscribeT1 \/ UnsubscribeOne \/ OnPublish \/ TaskRun

SpecReenter == InitReenter /\ [][NextReenter]_vars

\* What the builders of a loaded protocol may return: no object, an object
\* without a usable op, an object with an op of its own, or the envelope of the
\* call.
Built ==
    {<<"envelope">>, <<"undefined">>, <<"null">>, <<"text">>, <<"array">>}
    \cup {<<"object", op>> :
            op \in {<<"absent">>, <<"number">>, <<"string", "">>, <<"string", "wasm_op">>}}
BuildOptions == {[TestOptions EXCEPT !.builds = b] : b \in Built}

\* A subscription, an unsubscribe and a service call, sent by the API calls and
\* replayed on open, under every loaded protocol.
InitBuild ==
    InitWith(BuildOptions,
             {Ordered(Limits(MaxSockets, 0, MaxPending, 0, 0, MaxTasks, FALSE, {}))})

NextBuild ==
    \/ Connect \/ OnOpen \/ OnClose \/ ReplayStep
    \/ SubscribeOne \/ UnsubscribeOne \/ CallOne \/ TaskRun

SpecBuild == InitBuild /\ [][NextBuild]_vars

\* ------------------------------------------------------------ the retry loop
\* Reconnect enabled, no close(), shouldRetry absent or answering true.  The
\* factory throws and the server drops connections while there is room under
\* the caps; from then on the factory returns a transport and the server lets
\* it open and stay.
RetryOptions == {[TestOptions EXCEPT !.hasShouldRetry = r] : r \in BOOLEAN}
Willing(throws, sendThrows) == Chances({TRUE}, {TRUE}, throws, sendThrows)
ConnectAgain ==
    /\ Len(sockets) < limits.sockets
    /\ \E ch \in Willing(BOOLEAN, {FALSE}) : connect("u1", ch)
RetryTimerFired ==
    \E t \in timers, ch \in Willing(BOOLEAN, {FALSE}) : reconnectTimerFired(t, ch)
Accept ==
    /\ Len(sockets) > 0 /\ transport.rs = CONNECTING
    /\ \E ch \in Willing({FALSE}, {FALSE}) : onopen(Len(sockets), ch)
DropError ==
    /\ Len(sockets) < limits.sockets
    /\ \E ch \in Willing({FALSE}, {FALSE}) : onerror(Len(sockets), ch)
DropClose ==
    /\ Len(sockets) < limits.sockets
    /\ \E ch \in Willing({FALSE}, {FALSE}) : onclose(Len(sockets), ch)
Replay ==
    \E g \in 1..Len(sockets), ch \in Willing({FALSE}, BOOLEAN) : replayStep(g, ch)

InitRetry ==
    InitWith(RetryOptions,
             {Limits(MaxSockets + 1, MaxAttempt, 0, 0, 0, MaxTasks, FALSE, {})})

NextRetry ==
    \/ ConnectAgain \/ RetryTimerFired
    \/ Accept \/ DropError \/ DropClose \/ Replay
    \/ SubscribeEarly

SpecRetry == InitRetry /\ [][NextRetry]_vars

\* An armed timer fires, a transport that has fired nothing fires an event, and
\* the protocol promise a replay waits for resolves.
SpecRetryFair ==
    /\ SpecRetry
    /\ WF_vars(RetryTimerFired) /\ WF_vars(Accept) /\ WF_vars(Replay)

\* ------------------------------------------------ frames that arrive as Blobs
\* handleMessage awaits normalizeIncomingPayload before it decodes.  For a
\* string, an ArrayBuffer or a view the awaited promise is already resolved and
\* the frame is dispatched in the task of its message event.  For a Blob the
\* promise waits for raw.arrayBuffer(), which resolves in some later task: the
\* suspended handleMessage is kept in `tasks` under the kind "normalize", with
\* its place in the order of arrival among the frames that are still waiting
\* (1 is the earliest; the places close up when a frame leaves).
MaxBlobs == 2        \* Blob frames whose arrayBuffer() has not resolved
Normalizing(s) == {t \in s.tasks : t.kind = "normalize"}
Arrival(s) ==
    LET held == {t.inst : t \in Normalizing(s)}
    IN  IF held = {} THEN 1 ELSE 1 + (CHOOSE n \in held : \A k \in held : k <= n)
Carried(t) == [kind |-> t.key, id |-> t.type, session |-> t.comp, ok |-> TRUE]

onblob(g, m) ==
    /\ g \in 1..Len(sockets)
    /\ Newest(g) => transport.opened /\ ~transport.closed
    /\ Cardinality(Normalizing(State)) < MaxBlobs
    /\ m.ok
    /\ LET s1 == [State EXCEPT !.frame = m]
           t == Task("normalize", m.kind, m.id, m.session, Arrival(s1))
       IN  IF g # activeSocketGeneration THEN Commit(s1, "onmessage", g)
           ELSE Commit([s1 EXCEPT !.tasks = @ \cup {t}, !.res = "suspended"],
                       "onmessage", g)

normalized(t) ==
    /\ t \in Normalizing(State)
    /\ LET m == Carried(t)
           rest == {[u EXCEPT !.inst = IF @ > t.inst THEN @ - 1 ELSE @] :
                        u \in Normalizing(State) \ {t}}
           s1 == [State EXCEPT !.tasks = (@ \ Normalizing(State)) \cup rest,
                               !.frame = m]
       IN  Commit(handleMessage(s1, m), "normalized", t.inst)

OnBlob == \E m \in limits.frames : onblob(Len(sockets), m)
Normalized == \E t \in tasks : normalized(t)
SendRun ==
    \E task \in tasks \ Normalizing(State), ch \in Chances({TRUE}, {TRUE}, {FALSE}, BOOLEAN) :
        taskRun(task, ch)

BlobFrames ==
    [kind : {"feedback", "result", "action_result"}, id : {"a1"},
     session : {NoSession}, ok : {TRUE}]

InitBlob ==
    InitWith({TestOptions},
             {Limits(MaxSockets, 0, 0, MaxPending, 0, MaxTasks + MaxBlobs,
                     FALSE, BlobFrames)})

NextBlob ==
    \/ Connect \/ OnOpen \/ OnClose
    \/ SendOneGoal \/ SendRun
    \/ OnMessage \/ OnBlob \/ Normalized

SpecBlob == InitBlob /\ [][NextBlob]_vars

\* ------------------------------------------- what the server has been told
\* Continuations that wait for the protocol promise run in the order in which
\* they began to wait: a replay step waits behind a send that was suspended
\* before the transport opened.  The application issues no subscribe or
\* unsubscribe while a replay is in progress, and none that would be suspended
\* while another send is.
Replaying == \E g \in 1..Len(sockets) : sockets[g].rphase \in {"sub", "adv"}
Calm == ~Replaying /\ (tasks = {} \/ ~sendCheck(State))
SubscribeCalm == Calm /\ SubscribeAgain
UnsubscribeCalm == Calm /\ UnsubscribeOne
ReplayInTurn == tasks = {} /\ ReplayStep

InitServer ==
    InitWith({TestOptions},
             {Ordered(Limits(MaxSockets, 0, 0, 0, 0, MaxTasks + 1, FALSE, {}))})

NextServer ==
    \/ Connect \/ ReconnectTimerFired
    \/ OnOpen \/ OnClose
    \/ ReplayInTurn
    \/ SubscribeCalm \/ UnsubscribeCalm \/ TaskRun

SpecServer == InitServer /\ [][NextServer]_vars

\* ------------------------------------------------------------------ claims
Last == Len(sockets)

\* C1: in every reachable state at most one reconnect timer is armed, and no
\* task arms more than one: a schedule request made while a timer is armed
\* arms nothing and emits nothing.
C1_OneTimer == Cardinality(timers) <= 1 /\ Cardinality(step.sched) <= 1

\* C1 witness: an accepted onclose asked for a reconnect while the timer armed
\* by the onerror before it was still armed, and armed nothing.
C1_Witness ==
    /\ step.op = "onclose" /\ "onSocketClose" \in step.notes
    /\ step.sched = {} /\ timers # {}
    /\ ~manualClose /\ options.enabled /\ ~options.hasShouldRetry

\* C2: after close() and until the next connect() (manualClose is set) no
\* onReconnectScheduled event is emitted, no reconnect timer is armed and the
\* transport factory is not called, whatever the transports deliver.
C2_QuietAfterClose ==
    manualClose => step.sched = {} /\ timers = {} /\ step.factory = 0

\* C2 witness: a socket error delivered after close() was accepted by the
\* generation filter and notified, with reconnect enabled.
C2_Witness ==
    /\ manualClose /\ options.enabled /\ ~options.hasShouldRetry
    /\ step.op = "onerror" /\ "onSocketError" \in step.notes

\* The transport opened by a connect() call has neither opened nor failed, and
\* has not been closed by the client.
ConnectOpening ==
    Last > 0 /\ sockets[Last].by = "connect" /\ transport.rs = CONNECTING

\* C3: a connect() made while the transport of an earlier connect() is still
\* opening joins the promise of that connect, calls no factory, emits no
\* reconnect event and changes no state.
C3_ConnectDedup ==
    [][(step'.op = "connect" /\ ConnectOpening) =>
        /\ step'.res = "joined" /\ step'.gen = Last
        /\ step'.factory = 0 /\ step'.sched = {} /\ step'.notes = {}
        /\ UNCHANGED <<ws, socketGeneration, activeSocketGeneration, wsUrl,
                       manualClose, connectInFlight, reconnectAttempt,
                       reconnectTimer, sockets, transport, timers,
                       subscriptions, advertisedTopics>>]_vars

\* C3 witness: a second connect() joined the first while its transport, the
\* only one created, was still opening.
C3_Witness ==
    /\ step.op = "connect" /\ step.res = "joined"
    /\ Last = 1 /\ transport.rs = CONNECTING

\* The delay of the first attempt under the options of Spec.
InitialDelay == Max(0, TestOptions.initialDelayMs)

Idle == wsUrl = NoUrl
\* The newest transport is open and its replay has completed (onSocketOpen).
Connected ==
    Last > 0 /\ ws = Last /\ transport.rs = OPEN /\ sockets[Last].rphase = "done"

\* C6: an accepted open leaves the attempt counter at 0 with no timer armed,
\* unless its own replay failed at once and scheduled attempt 1; a reconnect
\* scheduled from attempt counter 0 reports attempt 1 and the initial delay;
\* and the counter is 0 whenever the client is idle, connected or manually
\* closed.
C6_ResetOnOpen ==
    /\ [](Idle \/ Connected \/ manualClose => reconnectAttempt = 0)
    /\ [][(step'.op = "onopen" /\ step'.gen = Last) =>
            \/ reconnectAttempt' = 0 /\ timers' = {} /\ step'.sched = {}
            \/ /\ reconnectAttempt' = 1
               /\ step'.sched = {[attempt |-> 1, delay |-> InitialDelay,
                                  reason |-> "connect_error"]}]_vars
    /\ [][(reconnectAttempt = 0 /\ step'.sched # {}) =>
            \A e \in step'.sched : e.attempt = 1 /\ e.delay = InitialDelay]_vars

\* C6 witness: a transport opened by the reconnect timer (so after a failure)
\* opened and replayed, then closed, and the reconnect scheduled by that close
\* is attempt 1 again.
C6_Witness ==
    /\ Last > 0 /\ sockets[Last].by = "timer" /\ sockets[Last].rphase = "done"
    /\ step.op = "onclose"
    /\ step.sched = {[attempt |-> 1, delay |-> InitialDelay,
                      reason |-> "socket_close"]}

SocketEvents == {"onopen", "onmessage", "onerror", "onclose"}

\* C4: an onopen, onmessage, onerror or onclose delivered by a transport that
\* is not the newest one changes nothing in the client: no observer callback,
\* no onReconnectScheduled event, no timer armed, no message dispatched, no
\* pending entry settled or removed, no factory call.
C4_StaleIgnored ==
    [][(step'.op \in SocketEvents /\ step'.gen < Last) =>
        /\ step'.notes = {} /\ step'.sched = {} /\ step'.dispatched = {}
        /\ step'.factory = 0
        /\ UNCHANGED <<ws, socketGeneration, activeSocketGeneration, wsUrl,
                       manualClose, connectInFlight, reconnectAttempt,
                       reconnectTimer, pendingCalls, pendingActions,
                       actionIdBySession, pendingActionCancels, subscriptions,
                       advertisedTopics, sockets, transport, timers, calls,
                       goals, cancels, tasks>>]_vars

\* C4 witness: the transport replaced by a second connect() delivered its
\* close while a goal sent on it was pending, and nothing was emitted.
C4_Witness ==
    /\ step.op = "onclose" /\ step.gen < Last /\ ~manualClose
    /\ sockets[Last].by = "connect"
    /\ \E i \in 1..Len(goals) : goals[i].on = step.gen /\ goals[i].st = "pending"

\* floor(min(initial * multiplier^(n-1), max)) with initialDelayMs floored at
\* 0, maxDelayMs floored at initialDelayMs and the multiplier floored at 1.
FlooredDelay(n) ==
    LET initial == Max(0, options.initialDelayMs)
        max == Max(initial, options.maxDelayMs)
        atLeastOne == options.mulNum >= options.mulDen
        num == IF atLeastOne THEN options.mulNum ELSE 1
        den == IF atLeastOne THEN options.mulDen ELSE 1
    IN  Min((initial * Pow(num, n - 1)) \div Pow(den, n - 1), max)

\* C5: with jitterRatio 0 every onReconnectScheduled event for attempt n
\* reports the delay floor(min(initial * multiplier^(n-1), max)) with the
\* multiplier floored at 1.
C5_DelayFormula ==
    \A e \in step.sched : e.delay = FlooredDelay(e.attempt)

\* C5: what the code computes agrees with the formula whenever the configured
\* multiplier is at least 1 or not positive.
C5_DelayFormulaFromOne ==
    (options.mulNum >= options.mulDen \/ options.mulNum <= 0) =>
        \A e \in step.sched : e.delay = FlooredDelay(e.attempt)

\* C5 witness: the third consecutive failure under 100 / 2 / 250 reports the
\* maximum, 250.
C5_Witness ==
    /\ options.initialDelayMs = 100 /\ options.maxDelayMs = 250
    /\ options.mulNum = 2 /\ options.mulDen = 1
    /\ \E e \in step.sched : e.attempt = 3 /\ e.delay = 250

\* C7: once the completion of a sendActionGoal has resolved or rejected,
\* pendingActions has no entry for its id and actionIdBySession has no entry
\* that maps to its id.
C7_SettledGoalLeavesNoEntry ==
    \A i \in 1..Len(goals) :
        goals[i].st # "pending" =>
            /\ pendingActions[goals[i].id] = 0
            /\ \A x \in Sessions : actionIdBySession[x] # goals[i].id

\* C8: once a transport has delivered its close, no goal and no cancel sent on
\* it is still pending, has its timeout armed or is held by a table.
C8_CloseRejectsAll ==
    step.op = "onclose" =>
        /\ \A i \in 1..Len(goals) :
                goals[i].on = step.gen =>
                    /\ goals[i].st # "pending" /\ ~goals[i].timer
                    /\ pendingActions[goals[i].id] # i
        /\ \A i \in 1..Len(cancels) :
                cancels[i].on = step.gen =>
                    /\ cancels[i].st # "pending" /\ ~cancels[i].timer
                    /\ pendingActionCancels[cancels[i].id] # i

ConnectionSteps ==
    {"connect", "close", "timer", "onopen", "onerror", "onclose", "replay"}

C10_CloseKeepsTables ==
    /\ [][step'.op = "close" =>
            /\ UNCHANGED <<pendingCalls, pendingActions, actionIdBySession,
                           pendingActionCancels, subscriptions, advertisedTopics,
                           calls, goals, cancels, tasks>>
            /\ manualClose' /\ timers' = {} /\ reconnectTimer' = 0
            /\ connectInFlight' = 0 /\ ws' = 0 /\ reconnectAttempt' = 0
            /\ (ws = Last /\ Last > 0) => transport'.rs = CLOSED]_vars
    /\ []((/\ Last > 0 /\ ws = Last /\ transport.rs = OPEN
           /\ sockets[Last].by = "connect" /\ sockets[Last].promise = "resolved") =>
            /\ \A k \in 1..Len(subscriptions) :
                \/ \E e \in sockets[Last].sent :
                        e.op = "subscribe" /\ e.key = subscriptions[k].topic
                \/ \E task \in tasks :
                        task.kind = "subscribe" /\ task.key = subscriptions[k].topic
            /\ \A k \in 1..Len(advertisedTopics) :
                \/ \E e \in sockets[Last].sent :
                        e.op = "advertise" /\ e.key = advertisedTopics[k].topic
                \/ \E task \in tasks :
                        task.kind = "advertise" /\ task.key = advertisedTopics[k].topic)

\* C10 witness: after a close() made with a call, a goal, a cancel, a
\* subscription and an advertisement outstanding, the next connect() resolved
\* on a transport that was sent both replayed envelopes.
C10_Witness ==
    /\ Last = 2 /\ ws = 2 /\ sockets[2].promise = "resolved"
    /\ \E i \in 1..Len(calls) : calls[i].on = 1 /\ calls[i].st = "pending"
    /\ \E i \in 1..Len(goals) : goals[i].on = 1 /\ goals[i].st = "pending"
    /\ \E i \in 1..Len(cancels) : cancels[i].on = 1 /\ cancels[i].st = "pending"
    /\ \E e \in sockets[2].sent : e.op = "subscribe" /\ e.key = "t1"
    /\ \E e \in sockets[2].sent : e.op = "advertise" /\ e.key = "t2"
    /\ \E e \in sockets[1].sent : e.op = "subscribe" /\ e.key = "t1"


\* Those among the envelopes handed to send() that the rebindState call of
\* transport g handed over.
ReplayedBy(g) == SelectSeq(WireUpTo(Len(sockets)), LAMBDA e : e.from = g)
Subscribes(r) == Len(SelectSeq(r, LAMBDA e : e.op = "subscribe"))

\* What the rebindState call of transport g has sent so far: the first entries
\* of the subscription table, one subscribe each and in the order of the table,
\* and after them the first entries of the advertisement table; the call holds
\* the entry that follows the last one sent; onSocketOpen is notified and the
\* promise of the open resolved only by the step that finds no entry left.
ReplayInOrder(g) ==
    LET r == ReplayedBy(g)
        nS == Subscribes(r)
        nA == Len(r) - nS
        e == sockets[g]
        notified == step.op \in {"onopen", "replay"} /\ step.gen = g
                    /\ "onSocketOpen" \in step.notes
    IN  /\ nS <= Len(subscriptions) /\ nA <= Len(advertisedTopics)
        /\ \A i \in 1..Len(r) :
              IF i <= nS
              THEN r[i].op = "subscribe" /\ r[i].key = subscriptions[i].topic
              ELSE r[i].op = "advertise" /\ r[i].key = advertisedTopics[i - nS].topic
        /\ e.rphase = "none" => r = <<>>
        /\ e.rphase = "sub" => nS = e.rpos - 1 /\ nA = 0
        /\ e.rphase = "adv" => nA = e.rpos - 1
        /\ e.promise = "resolved" => e.rphase = "done"
        /\ notified => e.rphase = "done" /\ e.promise = "resolved"
                       /\ nA = Len(advertisedTopics)

\* A publish frame accepted from the active transport reaches every callback of
\* its topic.
PublishDispatched ==
    (step.op = "onmessage" /\ step.gen = activeSocketGeneration
     /\ step.frame.kind = "publish")
    => LET k == IndexOf(subscriptions, step.frame.id)
       IN  step.dispatched = IF k = 0 THEN {}
                             ELSE {<<cb, step.frame.id>> :
                                        cb \in Range(subscriptions[k].callbacks)}

\* The step in which rebindState leaves the subscription table.
LeavesSubscriptions(g) ==
    /\ (IF g <= Len(sockets) THEN sockets[g].rphase ELSE "none") \in {"none", "sub"}
    /\ sockets'[g].rphase \in {"adv", "done"}

\* C11: on every accepted open the client sends one subscribe envelope for
\* each entry of the subscription table, in insertion order, then one advertise
\* envelope for each advertised topic, and only after all of them have been
\* sent does it notify onSocketOpen and resolve the promise of the open; a
\* publish frame that arrives on a transport opened by the reconnect timer
\* reaches the callbacks of its topic with no new subscribe() call.
C11_ReplayThenNotify ==
    /\ [](PublishDispatched /\ \A g \in 1..Len(sockets) : ReplayInOrder(g))
    /\ [][\A g \in 1..Len(sockets') :
            LeavesSubscriptions(g) => Subscribes(ReplayedBy(g))' = Len(subscriptions')]_vars

\* C11 witness: the transport opened by the reconnect timer has replayed two
\* subscriptions and one advertisement in order, its open was notified, and a
\* publish frame on it then reached the callback registered before the first
\* connect.
C11_Witness ==
    /\ Len(sockets) = 2 /\ sockets[2].by = "timer" /\ sockets[2].rphase = "done"
    /\ Len(subscriptions) = 2 /\ Len(advertisedTopics) = 1
    /\ Len(ReplayedBy(2)) = 3
    /\ ReplayedBy(2)[1].key = subscriptions[1].topic
    /\ ReplayedBy(2)[3].op = "advertise"
    /\ \A i \in 1..3 : ReplayedBy(2)[i].taken
    /\ step.op = "onmessage" /\ step.gen = 2 /\ step.frame.kind = "publish"
    /\ step.dispatched = {<<"cb1", "t1">>}

\* The envelope a continuation of rebindState handed to send(), as a set: empty
\* when the step is not one or handed none.
ReplayHanded ==
    IF step'.op = "replay" /\ ws # 0 /\ Len(sockets'[ws].wire) > Len(sockets[ws].wire)
    THEN {sockets'[ws].wire[Len(sockets'[ws].wire)]}
    ELSE {}

\* C12: every subscribe envelope handed over by a replay names a topic that is
\* in the subscription table when the envelope is built, and carries the type
\* and compression the table records for it at that moment.
C12_ReplayCarriesRecorded ==
    [][\A e \in ReplayHanded :
          e.op = "subscribe"
          => LET k == IndexOf(subscriptions, e.key)
             IN  /\ k # 0
                 /\ e.type = subscriptions[k].type
                 /\ e.comp = subscriptions[k].compression]_vars

\* What a subscribe() call that goes on to sendWithProtocol leaves behind: one
\* suspended subscribe with the type and compression of the entry when the
\* transport is open, the failure and nothing suspended when it is not.
SendAttempted(k) ==
    IF sendCheck(State)
    THEN /\ step'.res = "suspended"
         /\ tasks \subseteq tasks'
         /\ \E task \in tasks' \ tasks :
              /\ tasks' \ tasks = {task}
              /\ task.kind = "subscribe" /\ task.key = subscriptions'[k].topic
              /\ task.type = subscriptions'[k].type
              /\ task.comp = subscriptions'[k].compression
    ELSE step'.res = "not_connected" /\ tasks' = tasks

\* The effect of one subscribe("t1", ...) call on the entry of the topic.
SubscribeEffect ==
    LET k == IndexOf(subscriptions, "t1")
        k2 == IndexOf(subscriptions', "t1")
    IN  /\ k2 # 0
        /\ IF k = 0
           THEN /\ Len(subscriptions') = Len(subscriptions) + 1
                /\ Len(subscriptions'[k2].callbacks) = 1
                /\ SendAttempted(k2)
           ELSE /\ k2 = k /\ Len(subscriptions') = Len(subscriptions)
                /\ Range(subscriptions[k].callbacks)
                        \subseteq Range(subscriptions'[k].callbacks)
                /\ Cardinality(Range(subscriptions'[k].callbacks)
                               \ Range(subscriptions[k].callbacks)) <= 1
                /\ IF /\ subscriptions'[k].type = subscriptions[k].type
                      /\ subscriptions'[k].compression = subscriptions[k].compression
                   THEN step'.res = "ok" /\ tasks' = tasks
                   ELSE SendAttempted(k)

\* The suspended send of a subscribe() call hands exactly one envelope to
\* send(), the one the call built.
SubscribeSent ==
    \A task \in tasks \ tasks' :
        (task.kind = "subscribe" /\ step'.res = "sent")
        => /\ ws # 0
           /\ sockets'[ws].wire =
                Append(sockets[ws].wire,
                       [op |-> "subscribe", key |-> task.key, type |-> task.type,
                        comp |-> task.comp, from |-> 0,
                        taken |-> ReadyState(State, ws) = OPEN])

\* C13: subscribe() on a topic without an entry creates the entry with the one
\* callback and sends one subscribe envelope; on a topic with an entry it adds
\* the callback, and sends a subscribe envelope carrying the updated entry if
\* and only if the type or the compression differs from the recorded one;
\* otherwise nothing is sent.
C13_SubscribeSendsOnChange ==
    [][/\ step'.op = "subscribe" => SubscribeEffect
       /\ step'.op = "send" => SubscribeSent]_vars

\* C13 witness: on an open transport the first subscribe() was sent, and a
\* second one with the same type and compression added its callback and sent
\* nothing.
C13_Witness ==
    /\ step.op = "subscribe" /\ step.res = "ok" /\ tasks = {}
    /\ ws # 0 /\ ReadyState(State, ws) = OPEN
    /\ Len(subscriptions) = 1 /\ Range(subscriptions[1].callbacks) = {"cb1", "cb2"}
    /\ \E i \in 1..Len(sockets[ws].wire) :
          sockets[ws].wire[i].from = 0 /\ sockets[ws].wire[i].op = "subscribe"
    /\ Len(SelectSeq(WireUpTo(Len(sockets)), LAMBDA e : e.from = 0)) = 1

\* A subscribe() call made while the transport is absent or not open, for a
\* topic that has no entry or with another type than the recorded one, fails,
\* suspends no send, hands nothing to send(), and leaves the entry recorded.
FailsButRecords ==
    (step'.op = "subscribe" /\ ~sendCheck(State))
    => LET k == IndexOf(subscriptions, "t1")
           k2 == IndexOf(subscriptions', "t1")
       IN  /\ tasks' = tasks
           /\ WireUpTo(Len(sockets))' = WireUpTo(Len(sockets))
           /\ k2 # 0
           /\ (k = 0 \/ subscriptions'[k2].type # subscriptions[k2].type)
              => step'.res = "not_connected"

\* The open of transport g is notified with the recorded entry replayed by its
\* rebindState call, and a publish frame accepted afterwards reaches the
\* callback.
ReplayedAtOpen(g) ==
    LET k == IndexOf(subscriptions, "t1")
        notified == step.op \in {"onopen", "replay"} /\ step.gen = g
                    /\ "onSocketOpen" \in step.notes
        published == step.op = "onmessage" /\ step.gen = g
                     /\ g = activeSocketGeneration /\ step.frame.id = "t1"
    IN  /\ (notified /\ k # 0)
           => ReplayedBy(g) = <<[op |-> "subscribe", key |-> "t1",
                                 type |-> subscriptions[k].type,
                                 comp |-> subscriptions[k].compression,
                                 from |-> g, taken |-> ReplayedBy(g)[1].taken]>>
        /\ (published /\ k # 0) => step.dispatched = {<<"cb1", "t1">>}

CallSettles(i) == calls[i].st = "pending" /\ calls'[i].st # "pending"

\* The four ways a callService promise settles, and no other: a
\* service_response frame with its id on the active transport (resolve when
\* result is true, reject when it is not), its timeout (reject), the failure of
\* its send (reject).
SettledThrough(i) ==
    \/ /\ step'.op = "onmessage" /\ step'.gen = activeSocketGeneration
       /\ step'.frame.kind = "service_response" /\ step'.frame.id = calls[i].id
       /\ pendingCalls[calls[i].id] = i
       /\ calls'[i].st = IF step'.frame.ok THEN "resolved" ELSE "rejected"
    \/ /\ step'.op = "callTimeout" /\ step'.gen = i /\ calls[i].timer
       /\ calls'[i].st = "rejected"
    \/ /\ step'.op = "send" /\ step'.gen = i /\ step'.res = "send_error"
       /\ calls'[i].st = "rejected"

\* C15: a callService promise settles at most once, and only through a
\* service_response with its id (result true resolves, false rejects), its
\* timeout or a failed send (both reject); once it has settled the pending-call
\* table holds no entry for the call and its timeout is not armed.
C15_CallSettlesOnce ==
    /\ [](\A i \in 1..Len(calls) :
            calls[i].st # "pending"
            => pendingCalls[calls[i].id] # i /\ ~calls[i].timer)
    /\ [][/\ \A i \in 1..Len(calls) :
               /\ CallSettles(i) => SettledThrough(i)
               /\ calls[i].st # "pending"
                  => calls'[i].st = calls[i].st /\ calls'[i].why = calls[i].why
          /\ \A i \in (Len(calls) + 1)..Len(calls') :
               calls'[i].st # "pending"
               => /\ step'.op = "callService" /\ step'.res = "not_connected"
                  /\ calls'[i].st = "rejected"]_vars

\* C15 witness: of two calls with the same id and armed timeouts, the second
\* was resolved by a service_response and the first then rejected by its own
\* timeout; neither has an entry or an armed timeout left.
C15_Witness ==
    /\ Len(calls) = 2 /\ calls[1].id = calls[2].id
    /\ calls[2].st = "resolved" /\ calls[2].why = "response"
    /\ calls[1].st = "rejected" /\ calls[1].why = "timeout"
    /\ step.op = "callTimeout" /\ step.gen = 1

\* C16: once the send of a send_action_goal envelope has failed, the goal has
\* no pending-action entry, its session has no session-index entry naming it,
\* its timeout is not armed, and its completion promise is rejected.
C16_FailedSendRejectsCompletion ==
    \A i \in 1..Len(goals) :
        goals[i].sent = "failed"
        => /\ pendingActions[goals[i].id] # i
           /\ goals[i].session # NoSession
              => actionIdBySession[goals[i].session] # goals[i].id
           /\ ~goals[i].timer
           /\ goals[i].st = "rejected"

\* C16 witness: the send of a goal failed on a transport that had closed, the
\* bookkeeping was rolled back, and the completion is still pending.
C16_Witness ==
    /\ step.op = "send" /\ step.res = "send_error"
    /\ \E i \in 1..Len(goals) :
          /\ step.gen = i /\ goals[i].sent = "failed" /\ goals[i].st = "pending"
          /\ pendingActions[goals[i].id] = 0 /\ ~goals[i].timer

\* The tables and the goals once the entry of goal i is removed.
Removed(i) ==
    /\ pendingActions' = [pendingActions EXCEPT ![goals[i].id] = 0]
    /\ actionIdBySession' =
          IF goals[i].session = NoSession THEN actionIdBySession
          ELSE [actionIdBySession EXCEPT ![goals[i].session] = ""]
    /\ ~goals'[i].timer
    /\ \A j \in 1..Len(goals) : j # i => goals'[j] = goals[j]

\* What an action frame accepted from the active transport does to the goal i
\* it is attributed to: request and feedback call the hook and change nothing;
\* result calls onResult, removes the entry and settles by the status; error
\* and action_result call no hook, remove the entry and settle.
EventEffect(m, i) ==
    LET settled(st) == Removed(i) /\ goals[i].st = "pending" /\ goals'[i].st = st
        untouched == /\ goals' = goals /\ pendingActions' = pendingActions
                     /\ actionIdBySession' = actionIdBySession
    IN  CASE m.kind = "request" ->
                step'.dispatched = {<<"onRequest", i>>} /\ untouched
          [] m.kind = "feedback" ->
                step'.dispatched = {<<"onFeedback", i>>} /\ untouched
          [] m.kind = "result" ->
                /\ step'.dispatched = {<<"onResult", i>>}
                /\ settled(IF m.ok THEN "resolved" ELSE "rejected")
          [] m.kind = "error" ->
                step'.dispatched = {} /\ settled("rejected")
          [] m.kind = "action_result" ->
                /\ step'.dispatched = {}
                /\ settled(IF m.ok THEN "resolved" ELSE "rejected")

\* C17: request and feedback events invoke onRequest / onFeedback and leave
\* the action pending; the first terminal event (result, error, action_result)
\* attributed to it removes it and settles its completion once: resolved by a
\* result with status 0 or an action_result without error, rejected by a result
\* with another status, an error event or an action_result with error; a hook
\* is invoked only for an action that is still pending and in the table, so
\* none after the terminal event, and onResult only by the step that settles.
C17_EventsSettleOnce ==
    [][/\ (step'.op = "onmessage" /\ step'.gen = activeSocketGeneration
           /\ step'.frame.kind \in EventKinds)
          => LET i == findPendingAction(State, step'.frame.id, step'.frame.session)
             IN  IF i = 0
                 THEN step'.dispatched = {} /\ goals' = goals
                      /\ pendingActions' = pendingActions
                 ELSE EventEffect(step'.frame, i)
       /\ \A d \in step'.dispatched :
            /\ step'.op = "onmessage"
            /\ goals[d[2]].st = "pending" /\ pendingActions[goals[d[2]].id] = d[2]
            /\ d[1] = "onResult" => goals'[d[2]].st # "pending"
       /\ \A i \in 1..Len(goals) :
            goals[i].st # "pending" => goals'[i].st = goals[i].st]_vars

\* C17 witness: the first goal is still pending after a feedback event while
\* the second, sent with a session, has just been rejected by a result event
\* addressed by that session whose status is not 0, with onResult invoked.
C17_Witness ==
    /\ step.op = "onmessage" /\ step.frame.kind = "result" /\ ~step.frame.ok
    /\ step.dispatched = {<<"onResult", 2>>}
    /\ Len(goals) = 2
    /\ goals[2].st = "rejected" /\ goals[2].why = "result" /\ goals[2].session = "x"
    /\ goals[1].st = "pending" /\ pendingActions["a1"] = 1
    /\ pendingActions["a2"] = 0 /\ actionIdBySession["x"] = ""

\* The frame carries the action and the session the cancel was registered with.
SameKey(m, i) == m.id = "act" /\ m.session = cancels[i].session

\* The cancel the table holds under the key of the frame, 0 when there is none.
HeldCancel(m) ==
    LET held == {i \in 1..Len(cancels) :
                    SameKey(m, i) /\ pendingActionCancels[cancels[i].id] = i}
    IN  IF held = {} THEN 0 ELSE CHOOSE i \in held : TRUE

\* C18: among the incoming frames only a cancel_action_result whose action and
\* session (or "default") are those the cancel was registered under completes
\* a cancelActionGoal: result true resolves it, false rejects it.  Completing
\* the cancel neither settles nor removes the pending action; the action is
\* rejected by the result event with a non-zero status that follows.
C18_CancelByKey ==
    [][(step'.op = "onmessage" /\ step'.gen = activeSocketGeneration)
       => LET m == step'.frame
              i == HeldCancel(m)
          IN  /\ IF m.kind = "cancel_action_result" /\ i # 0
                 THEN /\ cancels[i].st = "pending"
                      /\ cancels'[i].st = IF m.ok THEN "resolved" ELSE "rejected"
                      /\ ~cancels'[i].timer
                      /\ pendingActionCancels' =
                            [pendingActionCancels EXCEPT ![cancels[i].id] = 0]
                      /\ \A j \in 1..Len(cancels) : j # i => cancels'[j] = cancels[j]
                 ELSE cancels' = cancels /\ pendingActionCancels' = pendingActionCancels
              /\ m.kind = "cancel_action_result"
                 => /\ goals' = goals /\ pendingActions' = pendingActions
                    /\ actionIdBySession' = actionIdBySession
                    /\ step'.dispatched = {}
              /\ (m.kind = "result" /\ ~m.ok /\ pendingActions["a1"] # 0)
                 => goals'[pendingActions["a1"]].st = "rejected"]_vars

\* C18 witness: the cancel was resolved by its cancel_action_result while the
\* goal stayed pending, and the goal has now been rejected by a result event
\* with a non-zero status.
C18_Witness ==
    /\ step.op = "onmessage" /\ step.frame.kind = "result" /\ ~step.frame.ok
    /\ Len(goals) = 1 /\ goals[1].st = "rejected" /\ goals[1].why = "result"
    /\ goals[1].session = "x"
    /\ Len(cancels) = 1 /\ cancels[1].st = "resolved" /\ cancels[1].session = "x"

\* The ids the pending-action table holds.
HeldActions == {a \in ActIds : pendingActions[a] # 0}

\* An action frame accepted from the active transport.
ActionFrameAccepted ==
    /\ step'.op = "onmessage" /\ step'.gen = activeSocketGeneration
    /\ step'.frame.kind \in EventKinds

\* The step invoked no hook, settled nothing and left the tables as they were.
FrameDropped ==
    /\ step'.dispatched = {}
    /\ goals' = goals /\ cancels' = cancels /\ calls' = calls
    /\ pendingActions' = pendingActions /\ actionIdBySession' = actionIdBySession
    /\ pendingActionCancels' = pendingActionCancels /\ pendingCalls' = pendingCalls

\* C19: with two or more actions pending, an action event or action_result
\* that carries neither id nor session_id is dropped: no hook is invoked, no
\* completion is settled, the tables are unchanged.
C19_AnonymousDropped ==
    [][(/\ ActionFrameAccepted
        /\ step'.frame.id = "" /\ step'.frame.session = NoSession
        /\ Cardinality(HeldActions) >= 2)
       => FrameDropped]_vars

\* C19 witness: a result event without id and session arrived with two goals
\* in the table, and both are still pending there.
C19_Witness ==
    /\ step.op = "onmessage" /\ step.gen = activeSocketGeneration
    /\ step.frame.kind = "result" /\ step.frame.id = ""
    /\ step.frame.session = NoSession
    /\ step.dispatched = {}
    /\ pendingActions["a1"] = 1 /\ pendingActions["a2"] = 2
    /\ goals[1].st = "pending" /\ goals[2].st = "pending"
    /\ goals[1].sent = "yes" /\ goals[2].sent = "yes"

\* The frame names an action: it carries an id or a session_id.
Addressed(m) == m.id # "" \/ m.session # NoSession

\* No action in the table was sent with the id or with the session the frame
\* carries.
MatchesNone(m) ==
    \A a \in HeldActions :
        /\ a # m.id
        /\ m.session = NoSession \/ goals[pendingActions[a]].session # m.session

\* C20: an action frame that carries an id or a session_id matching no pending
\* action invokes no hook and settles nothing; only a frame that carries
\* neither is attributed to the sole pending action.
C20_AddressedNeverFallsBack ==
    [][(ActionFrameAccepted /\ Addressed(step'.frame) /\ MatchesNone(step'.frame))
       => step'.dispatched = {} /\ goals' = goals]_vars

\* C20 witness: goal a1 was rejected by its timeout, and the result event for
\* a1 that arrived afterwards invoked onResult of goal a2, sent with a session,
\* and resolved it.
C20_Witness ==
    /\ step.op = "onmessage" /\ step.frame.kind = "result" /\ step.frame.id = "a1"
    /\ step.dispatched = {<<"onResult", 2>>}
    /\ Len(goals) = 2
    /\ goals[1].id = "a1" /\ goals[1].st = "rejected" /\ goals[1].why = "timeout"
    /\ goals[2].id = "a2" /\ goals[2].session = "x"
    /\ goals[2].st = "resolved" /\ goals[2].why = "result"

\* C21 -- timeouts.  The per-call timeoutMs, else the client default, arms a timer
\* exactly when it is a number above zero.
TimerArmedWhen(perCall, default) ==
    \/ perCall # <<>> /\ perCall[1] > 0
    \/ perCall = <<>> /\ default # <<>> /\ default[1] > 0

Timed(seq, i) == i <= Len(seq) /\ seq[i].timer
Settled(seq, i) == i <= Len(seq) /\ seq[i].st # "pending"
SendFailed(seq, i) == i <= Len(seq) /\ seq[i].sent = "failed"

\* The timer that fires rejects its promise with the timeout error and removes
\* the pending entry.
TimerFired ==
    /\ step'.op = "callTimeout" =>
          /\ calls'[step'.gen].st = "rejected" /\ calls'[step'.gen].why = "timeout"
          /\ pendingCalls'[calls[step'.gen].id] = 0
    /\ step'.op = "goalTimeout" =>
          /\ goals'[step'.gen].st = "rejected" /\ goals'[step'.gen].why = "timeout"
          /\ pendingActions'[goals[step'.gen].id] = 0
    /\ step'.op = "cancelTimeout" =>
          /\ cancels'[step'.gen].st = "rejected" /\ cancels'[step'.gen].why = "timeout"
          /\ pendingActionCancels'[cancels[step'.gen].id] = 0

\* A promise never gets a timer after the call that made it.
NeverArmedLater ==
    /\ \A i \in 1..Len(calls) : ~calls[i].timer => ~calls'[i].timer
    /\ \A i \in 1..Len(goals) : ~goals[i].timer => ~goals'[i].timer
    /\ \A i \in 1..Len(cancels) : ~cancels[i].timer => ~cancels'[i].timer

\* C21 (the part that holds): a timer is armed exactly for an effective timeout
\* above zero and never later; a timer that fires rejects with the timeout error
\* and removes the entry; every service call and every cancel with a timer
\* settles, and so does every action goal with a timer whose send did not fail.
C21_TimersSettleTheRest ==
    /\ [](\A p \in TimeoutOpts, d \in TimeoutOpts :
            effectiveTimeout(p, d) <=> TimerArmedWhen(p, d))
    /\ [][TimerFired /\ NeverArmedLater]_vars
    /\ \A i \in 1..MaxPending :
          /\ Timed(calls, i) ~> Settled(calls, i)
          /\ Timed(goals, i) ~> (Settled(goals, i) \/ SendFailed(goals, i))
    /\ \A i \in 1..MaxCancels : Timed(cancels, i) ~> Settled(cancels, i)

\* C21: every sendActionGoal completion started with an effective timeout above
\* zero eventually settles, whatever the connection does in the meantime.
C21_TimedGoalSettles ==
    \A i \in 1..MaxPending : Timed(goals, i) ~> Settled(goals, i)

\* The send of a goal was suspended at the protocol await and then failed: the
\* timer is cleared and the completion is pending, with nothing left to settle it.
C21_Witness ==
    /\ step.op = "send" /\ step.res = "send_error"
    /\ \E i \in 1..Len(goals) :
          /\ goals[i].sent = "failed" /\ goals[i].st = "pending"
          /\ ~goals[i].timer /\ pendingActions[goals[i].id] = 0

\* C22 -- a transport opened by connect() that fails before it opens.
\* The reconnect timer is armed wherever the configuration lets a retry through.
RetryArmed == options.enabled /\ ~options.hasShouldRetry => reconnectTimer # 0

\* The last task was the event op of the active transport, which connect()
\* opened and which has not opened, with no close() in between.
FailedBeforeOpen(op) ==
    /\ step.op = op /\ step.gen = activeSocketGeneration
    /\ step.gen \in 1..Len(sockets) /\ Newest(step.gen)
    /\ sockets[step.gen].by = "connect"
    /\ ~transport.opened /\ ~manualClose

\* C22 (the part that holds): when the factory throws inside connect(), or the
\* transport fires onerror before it opens, onSocketError is notified, the
\* reconnect timer is armed if reconnect is enabled, and connect() rejects.
C22_ThrowAndErrorReject ==
    /\ step.op = "connect" /\ step.res = "thrown" =>
          /\ "onSocketError" \in step.notes /\ RetryArmed
          /\ connectInFlight = 0
    /\ FailedBeforeOpen("onerror") =>
          /\ "onSocketError" \in step.notes /\ RetryArmed
          /\ sockets[step.gen].promise = "rejected" /\ connectInFlight = 0

\* C22: when the transport opened by connect() fires onclose without having
\* opened, onSocketClose is notified, the reconnect timer is armed if reconnect
\* is enabled, and the promise of connect() is rejected.
C22_CloseBeforeOpenRejects ==
    FailedBeforeOpen("onclose") =>
        /\ "onSocketClose" \in step.notes /\ RetryArmed
        /\ sockets[step.gen].promise = "rejected"

\* The transport closed without opening and without an error event: the
\* observer is told, the timer is armed, and connect() is still pending.
C22_Witness ==
    /\ FailedBeforeOpen("onclose") /\ ~transport.errored
    /\ "onSocketClose" \in step.notes /\ reconnectTimer # 0
    /\ sockets[step.gen].promise = "pending" /\ connectInFlight = step.gen

\* C23 -- sending after the protocol await.
\* C23: every envelope handed to the send() of a transport is handed over while
\* the readyState of that transport is OPEN.
C23_HandedOnlyWhenOpen ==
    \A g \in 1..Len(sockets) : \A k \in 1..Len(sockets[g].wire) :
        sockets[g].wire[k].taken

\* An API call passed the check of line 666 and was suspended; when it resumed,
\* this.ws was a transport that was not OPEN, and send() was called on it.
C23_Witness ==
    /\ step.op = "send" /\ step.res = "sent"
    /\ \E g \in 1..Len(sockets) :
          /\ sockets[g].wire # <<>>
          /\ LET h == sockets[g].wire[Len(sockets[g].wire)]
             IN  h.from = 0 /\ ~h.taken /\ ReadyState(State, g) # OPEN

\* C24 -- the dispatch of a publish frame.
NoRepeat(seq) == \A i, j \in 1..Len(seq) : seq[i] = seq[j] => i = j

\* subscribe() keeps the callbacks of an entry in the order they were first
\* registered: a new one goes to the end, a known one changes nothing.
KeepsRegistrationOrder ==
    \A topic \in Topics :
        LET k == IndexOf(subscriptions, topic)
            k2 == IndexOf(subscriptions', topic)
        IN  (step'.op = "subscribe" /\ k # 0) =>
                /\ k2 # 0
                /\ \/ subscriptions'[k2].callbacks = subscriptions[k].callbacks
                   \/ \E cb \in Callbacks \ Range(subscriptions[k].callbacks) :
                        subscriptions'[k2].callbacks =
                            Append(subscriptions[k].callbacks, cb)

Wire == WireUpTo(Len(sockets))
Without(table, topic) == SelectSeq(table, LAMBDA e : e.topic # topic)

\* unsubscribe("t1") removes the entry of t1, callbacks and all, leaves the
\* other entries as they are, and sends one unsubscribe envelope: the send is
\* suspended at the protocol await, or fails at once with no connection.
UnsubscribeEffect ==
    step'.op = "unsubscribe" =>
        /\ subscriptions' = Without(subscriptions, "t1")
        /\ Wire' = Wire
        /\ IF sendCheck(State)
           THEN /\ step'.res = "suspended"
                /\ \E task \in tasks' \ tasks :
                      /\ tasks' = tasks \cup {task}
                      /\ task.kind = "unsubscribe" /\ task.key = "t1"
           ELSE step'.res = "not_connected" /\ tasks' = tasks

\* The suspended send of an unsubscribe hands over at most that one envelope.
UnsubscribeSent ==
    \A task \in tasks \ tasks' :
        (step'.op = "send" /\ task.kind = "unsubscribe") =>
            \/ Wire' = Wire
            \/ \E taken \in BOOLEAN :
                  Wire' = Append(Wire, [op |-> "unsubscribe", key |-> "t1", type |-> "",
                                        comp |-> "", from |-> 0, taken |-> taken])

\* A replay holds an entry that is no longer in the table only if it held that
\* entry when unsubscribe() removed it: a replay that starts afterwards takes
\* its entries from the table.
HeldBeforeRemoval ==
    \A g \in 1..Len(sockets') :
        (sockets'[g].rphase = "sub" /\ ~sockets'[g].rlive) =>
            /\ g <= Len(sockets) /\ sockets[g].rphase = "sub"
            /\ sockets[g].rtopic = sockets'[g].rtopic
            /\ sockets[g].rlive => step'.op = "unsubscribe"

\* A subscribe envelope that a replay hands over for a topic without an entry
\* comes from a replay that held the removed entry.
ReplayOfRemoved ==
    (step'.op = "replay" /\ Len(Wire') = Len(Wire) + 1) =>
        LET h == sockets'[step'.gen].wire[Len(sockets'[step'.gen].wire)]
        IN  (h.op = "subscribe" /\ IndexOf(subscriptions, h.key) = 0) =>
                ~sockets[step'.gen].rlive /\ sockets[step'.gen].rtopic = h.key

\* C25: unsubscribe(topic) removes the entry with its callbacks and sends one
\* unsubscribe envelope; while the topic has no entry a publish frame for it
\* invokes no callback, and a replay that starts then sends no subscribe for
\* it: the entry a replay holds is an entry of the table.
C25_UnsubscribeForgets ==
    /\ [](\A g \in 1..Len(sockets) :
            (sockets[g].rphase = "sub" /\ sockets[g].rlive) =>
                /\ sockets[g].rpos \in 1..Len(subscriptions)
                /\ subscriptions[sockets[g].rpos].topic = sockets[g].rtopic)
    /\ [][/\ UnsubscribeEffect /\ UnsubscribeSent
          /\ HeldBeforeRemoval /\ ReplayOfRemoved
          /\ (/\ step'.op = "onmessage" /\ step'.frame.id = "t1"
              /\ IndexOf(subscriptions, "t1") = 0) => step'.invoked = <<>>]_vars

\* t1 was subscribed and replayed on the first transport and then unsubscribed
\* there; t2 was subscribed afterwards.  The replay on the second transport has
\* finished and sent the subscribe of t2 alone.
C25_Witness ==
    /\ Len(sockets) = 2 /\ sockets[2].rphase = "done"
    /\ Len(sockets[1].wire) = 2
    /\ sockets[1].wire[1].op = "subscribe" /\ sockets[1].wire[1].key = "t1"
    /\ sockets[1].wire[2].op = "unsubscribe" /\ sockets[1].wire[2].taken
    /\ Len(sockets[2].wire) = 1
    /\ sockets[2].wire[1].op = "subscribe" /\ sockets[2].wire[1].key = "t2"
    /\ IndexOf(subscriptions, "t1") = 0

\* C26 -- the CBOR round trip.
\* The value without the object entries whose value is undefined.
RECURSIVE Dropped(_)
RECURSIVE DroppedAll(_)
RECURSIVE DroppedEntries(_)
DroppedAll(items) ==
    IF items = <<>> THEN <<>> ELSE <<Dropped(items[1])>> \o DroppedAll(Tail(items))
DroppedEntries(entries) ==
    IF entries = <<>> THEN <<>>
    ELSE IF entries[1][2] = <<"undef">> THEN DroppedEntries(Tail(entries))
    ELSE <<<<entries[1][1], Dropped(entries[1][2])>>>> \o DroppedEntries(Tail(entries))
Dropped(x) ==
    CASE x[1] = "arr" -> <<"arr", DroppedAll(x[2])>>
      [] x[1] = "obj" -> <<"obj", DroppedEntries(x[2])>>
      [] OTHER -> x

\* No string of the value, property key or not, begins with a byte order mark,
\* and no property key is __proto__.
RECURSIVE Plain(_)
Plain(x) ==
    CASE x[1] = "str" -> x[2] = <<>> \/ x[2][1] # BOM
      [] x[1] = "arr" -> \A i \in 1..Len(x[2]) : Plain(x[2][i])
      [] x[1] = "obj" ->
            \A i \in 1..Len(x[2]) :
                /\ x[2][i][1] # Proto /\ Plain(<<"str", x[2][i][1]>>)
                /\ Plain(x[2][i][2])
      [] OTHER -> TRUE

\* The bytes an integer takes: the head alone up to 23, then 1, 2, 4 or 8 more.
IntegerBytes(x) ==
    LET n == IF x[2] THEN DecDigits(x[3]) ELSE x[3]
    IN  IF Leq(n, <<23>>) THEN 1 ELSE IF Len(n) = 1 THEN 2 ELSE IF Len(n) = 2 THEN 3
        ELSE IF Len(n) <= 4 THEN 5 ELSE 9

\* C26 (the part that holds): decodeCbor(encodeCbor(x)) is x without its
\* undefined-valued entries for every x whose strings do not begin with a byte
\* order mark and whose objects have no __proto__ key; an integer is encoded in
\* the shortest of the five length classes.
C26_PlainRoundTrip ==
    /\ (codec.phase = "decoded" /\ Plain(codec.value)) =>
            codec.out = Dropped(codec.value)
    /\ (codec.phase = "encoded" /\ codec.value[1] = "int") =>
            Len(codec.bytes) = IntegerBytes(codec.value)

\* C26: decodeCbor(encodeCbor(x)) deep-equals x, the undefined-valued object
\* entries dropped, for every x built from booleans, null, safe integers,
\* strings, byte buffers, arrays and plain objects with string keys.
C26_RoundTrip ==
    codec.phase = "decoded" => codec.out = Dropped(codec.value)

\* The string U+FEFF "a" came back as "a".
C26_Witness ==
    /\ codec.phase = "decoded"
    /\ codec.value = <<"str", <<BOM, 97>>>>
    /\ codec.bytes = <<96 + 4, 239, 187, 191, 97>>
    /\ codec.out = <<"str", <<97>>>>

\* C27 -- resolveCodec.
\* C27: resolveCodec(resolveCodec(o)) is resolveCodec(o) for the names json,
\* cbor and auto, for an absent option, which resolves to the JSON codec, and for
\* a codec object, which resolves to itself.
C27_ResolveIdempotent ==
    /\ codec.phase \in {"resolved", "again"} =>
          /\ codec.out[1] = "codec"
          /\ codec.value = <<"absent">> => codec.out[2] = jsonCodec
          /\ codec.value[1] = "name" =>
                codec.out[2] \in BuiltIn /\ codec.out[2].name = codec.value[2]
          /\ codec.value[1] = "codec" => codec.out = codec.value
    /\ codec.phase = "again" => codec.bytes = codec.out

\* A custom codec named json that encodes CBOR was resolved twice and is still
\* itself, not the built-in JSON codec.
C27_Witness ==
    /\ codec.phase = "again"
    /\ codec.value[1] = "codec" /\ codec.value[2] \notin BuiltIn
    /\ codec.value[2].name = "json" /\ codec.value[2].encode = "cbor"
    /\ codec.bytes = codec.value

\* C28 -- the guards of scheduleReconnect.
\* The task armed a reconnect timer.
Armed == timers' \ timers # {} \/ step'.sched # {}

\* C28: a reconnect timer is armed only with manualClose false, reconnect
\* enabled, a URL stored, no other timer armed, and shouldRetry absent or
\* answering true to the context of that attempt, which is the attempt counter
\* plus one; when reconnect is disabled or shouldRetry answers false nothing is
\* armed, no onReconnectScheduled event is emitted and the attempt counter is
\* not incremented.
C28_ArmedOnlyWhenAllowed ==
    [][/\ Armed =>
            /\ ~manualClose' /\ options.enabled /\ wsUrl' # NoUrl
            /\ timers' = {reconnectTimer'} /\ Cardinality(step'.sched) = 1
            /\ \A e \in step'.sched :
                  /\ e.attempt = reconnectAttempt'
                  /\ options.hasShouldRetry =>
                        [reason |-> e.reason, attempt |-> e.attempt, answer |-> TRUE]
                            \in step'.asked
       /\ (~options.enabled \/ (options.hasShouldRetry /\ \A a \in step'.asked : ~a.answer)) =>
            /\ step'.sched = {} /\ timers' \subseteq timers
            /\ reconnectAttempt' <= reconnectAttempt
       /\ \A a \in step'.asked :
            /\ options.hasShouldRetry
            /\ a.attempt \in {reconnectAttempt', reconnectAttempt' + 1}
            /\ ~a.answer /\ step'.sched = {} => a.attempt = reconnectAttempt' + 1]_vars

\* The factory threw in the callback of the reconnect timer: shouldRetry
\* answered false to open_socket_throw and true to connect_error, both for the
\* same attempt, and the timer of that attempt is armed.
C28_Witness ==
    /\ \E a, b \in step.asked :
          /\ a.reason = "open_socket_throw" /\ ~a.answer
          /\ b.reason = "connect_error" /\ b.answer /\ b.attempt = a.attempt
          /\ step.sched = {[attempt |-> b.attempt, reason |-> b.reason,
                            delay |-> computeReconnectDelayMs(b.attempt, 0)]}
    /\ reconnectAttempt > 0 /\ timers # {}

\* C29 -- the onReconnectScheduled events.
\* The task was close() or an accepted open: resetReconnectState ran in it.
CounterReset ==
    step'.op = "close" \/ (step'.op = "onopen" /\ step'.gen = activeSocketGeneration)

\* C29: a task emits onReconnectScheduled once when it arms a timer and not at
\* all when it arms none; the attempt of the event is one more than that of the
\* event before it, and 1 for the first one after an accepted open or close():
\* the attempt counter, which is the event's attempt, moves in no other way;
\* nextDelayMs is the delay computed for that attempt, with which the timer is
\* armed.
C29_OneEventPerTimer ==
    [][/\ step'.sched # {} =>
            /\ Cardinality(step'.sched) = 1 /\ timers' = {reconnectTimer'}
            /\ \A e \in step'.sched :
                  /\ e.attempt = IF CounterReset THEN 1 ELSE reconnectAttempt + 1
                  /\ e.attempt = reconnectAttempt'
                  /\ \E rnd \in Draws : e.delay = computeReconnectDelayMs(e.attempt, rnd)
       /\ step'.sched = {} =>
            /\ timers' \subseteq timers
            /\ reconnectAttempt' = IF CounterReset THEN 0 ELSE reconnectAttempt]_vars

\* The second timer in a row, with no open in between: the event says attempt
\* 2 and the doubled delay.
C29_Witness ==
    /\ step.op = "onclose" /\ reconnectAttempt = 2 /\ timers # {}
    /\ step.sched = {[attempt |-> 2, reason |-> "socket_close",
                      delay |-> 2 * options.initialDelayMs]}

\* C30 -- a replay that fails.
\* The rebindState call of transport g threw in this task.
ReplayFailedNow(g) ==
    /\ step'.op \in {"onopen", "replay"} /\ step'.gen = g
    /\ sockets'[g].rphase = "failed" /\ sockets[g].rphase # "failed"

\* C30: when rebindState throws after the open, at the first entry or at a
\* later one, onSocketOpen is not notified and onSocketError is; the promise of
\* the openSocket call is rejected, so an in-flight connect() rejects; a
\* reconnect, if the task schedules one, has the reason connect_error, and the
\* timer is armed after the task wherever manualClose, reconnect.enabled and
\* shouldRetry allow it; the two tables are as they were.
C30_FailedReplay ==
    [][\A g \in 1..Len(sockets) :
        ReplayFailedNow(g) =>
            /\ "onSocketOpen" \notin step'.notes /\ "onSocketError" \in step'.notes
            /\ sockets'[g].promise = "rejected" /\ connectInFlight' # g
            /\ \A e \in step'.sched : e.reason = "connect_error"
            /\ (~manualClose /\ options.enabled /\ ~options.hasShouldRetry) =>
                    /\ reconnectTimer' # 0
                    /\ (reconnectTimer = 0 \/ step'.op = "onopen") => step'.sched # {}
            /\ subscriptions' = subscriptions
            /\ advertisedTopics' = advertisedTopics]_vars

\* The subscribe of t1 went out, the transport closed, and the replay failed at
\* the advertisement: connect() is rejected and attempt 1 is scheduled with the
\* reason connect_error, both tables intact.
C30_Witness ==
    /\ step.op = "replay" /\ step.gen = 1 /\ sockets[1].rphase = "failed"
    /\ sockets[1].by = "connect" /\ sockets[1].promise = "rejected"
    /\ sockets[1].rtopic = "t2"
    /\ step.notes = {"onSocketError"}
    /\ \E e \in step.sched : e.reason = "connect_error" /\ e.attempt = 1
    /\ Len(subscriptions) = 1 /\ Len(advertisedTopics) = 1

\* C31: a frame that does not decode, or an envelope with no handled op and no
\* type (op "error" and op "cli_response" among them), changes nothing: no
\* callback, hook or observer is invoked, no pending entry is added, removed or
\* settled, the transport is not closed and no reconnect is scheduled.  An
\* envelope is handled by one branch only, the first whose test it passes: a
\* publish touches no pending entry, a service_response only the service calls,
\* a cancel_action_result only the cancels, an action_result only the goals and
\* without a hook, a type event only the goals.
Connection ==
    <<ws, socketGeneration, activeSocketGeneration, wsUrl, manualClose,
      connectInFlight, reconnectAttempt, reconnectTimer, sockets, transport,
      timers, subscriptions, advertisedTopics, tasks>>
CallTables == <<pendingCalls, calls>>
GoalTables == <<pendingActions, actionIdBySession, goals>>
CancelTables == <<pendingActionCancels, cancels>>
Unhandled(e) == ~e.decodes \/ (e.op \notin HandledOps /\ e.type = "")
C31_OneBranchOrNone ==
    [][step'.op = "onmessage" =>
        LET e == step'.frame
            hooks == step'.dispatched
            called == step'.invoked
        IN  /\ UNCHANGED Connection
            /\ step'.notes = {} /\ step'.sched = {} /\ step'.factory = 0
            /\ Unhandled(e) =>
                    /\ UNCHANGED <<CallTables, GoalTables, CancelTables>>
                    /\ hooks = {} /\ called = <<>>
            /\ e.decodes /\ e.op = "publish" =>
                    /\ UNCHANGED <<CallTables, GoalTables, CancelTables>>
                    /\ hooks = {<<cb, e.topic>> : cb \in Range(called)}
            /\ e.decodes /\ e.op = "service_response" =>
                    /\ UNCHANGED <<GoalTables, CancelTables>>
                    /\ hooks = {} /\ called = <<>>
            /\ e.decodes /\ e.op = "cancel_action_result" =>
                    /\ UNCHANGED <<CallTables, GoalTables>>
                    /\ hooks = {} /\ called = <<>>
            /\ e.decodes /\ e.op = "action_result" =>
                    /\ UNCHANGED <<CallTables, CancelTables>>
                    /\ hooks = {} /\ called = <<>>
            /\ e.decodes /\ e.op \notin HandledOps =>
                    /\ UNCHANGED <<CallTables, CancelTables>>
                    /\ called = <<>>]_vars

\* C31 witness: an envelope with op "error" and no type arrived on the active
\* transport while a subscription, a service call, an action goal and a cancel
\* were outstanding.
C31_Witness ==
    /\ step.op = "onmessage" /\ step.gen = activeSocketGeneration
    /\ step.frame.op = "error" /\ step.frame.type = ""
    /\ Len(subscriptions) = 1
    /\ pendingCalls["s1"] # 0 /\ pendingActions["a1"] # 0
    /\ pendingActionCancels[<<"act", "x">>] # 0

\* C32: the dispatch of a publish message invokes the callbacks that were
\* registered for the topic when the dispatch began, each once and in their
\* order, and no other: a callback registered by subscribe() from inside a
\* callback is not invoked for that message, and an unsubscribe() from inside a
\* callback does not keep the later callbacks from receiving it.
Dispatching(topic) ==
    /\ step'.op = "onmessage" /\ step'.gen = activeSocketGeneration
    /\ IndexOf(subscriptions, topic) # 0
Snapshot(topic) == subscriptions[IndexOf(subscriptions, topic)].callbacks
IsPrefix(a, b) == Len(a) <= Len(b) /\ SubSeq(b, 1, Len(a)) = a
Subscribers(does, called) ==
    {cb \in Range(called) : does[cb][1] = "subscribe"}
C32_DispatchesSnapshot ==
    [][Dispatching("t1") => step'.invoked = Snapshot("t1")]_vars

\* C32, the part that holds: every callback of the snapshot is invoked, in
\* order and once, whatever the callbacks unsubscribe; and when no invoked
\* callback subscribes, no other callback is invoked.
C32_SnapshotIsServed ==
    [][Dispatching("t1") =>
        /\ IsPrefix(Snapshot("t1"), step'.invoked)
        /\ NoRepeat(step'.invoked)
        /\ Subscribers(step'.frame.does, step'.invoked) = {}
                => step'.invoked = Snapshot("t1")]_vars

\* C32 witness: the first callback invoked called unsubscribe(), the entry left
\* the table, and the second callback received the message all the same.
C32_Witness ==
    /\ step.op = "onmessage" /\ step.gen = activeSocketGeneration
    /\ Len(step.invoked) = 2
    /\ step.frame.does[step.invoked[1]] = <<"unsubscribe">>
    /\ step.frame.does[step.invoked[2]] = <<"none">>
    /\ subscriptions = <<>>

\* C33: whenever the builder of the loaded protocol returns something that is
\* not an object with a non-empty string op, the send goes on with the envelope
\* the fallback builds for the same call: on an open transport every suspended
\* send and every replayed entry hands over exactly one envelope, that of the
\* loaded protocol when it has an op and that of the fallback otherwise, and no
\* send fails for want of an envelope.  Nothing without an op is handed to a
\* transport.
Outgoing == UNION {Range(sockets[g].wire) : g \in 1..Len(sockets)}
SentOp(op) ==
    IF hasValidOpEnvelope(options.builds) THEN options.builds[2][2] ELSE op
C33_FallbackBuilds ==
    [][/\ \A e \in Outgoing' :
            /\ e.op # ""
            /\ e.op = SentOp(e.op)
            /\ e.op \in {"subscribe", "unsubscribe", "call", "wasm_op"}
       /\ step'.op = "send" /\ sendCheck(State) =>
            \E task \in tasks \ tasks' :
                /\ step'.res = "sent"
                /\ sockets'[ws].wire =
                        Append(sockets[ws].wire,
                               Handed([op |-> SentOp(task.kind), key |-> task.key,
                                       type |-> task.type, comp |-> task.comp,
                                       from |-> 0], TRUE))
       /\ step'.op = "replay" /\ sendCheck(State) =>
            /\ Len(sockets'[ws].wire) = Len(sockets[ws].wire) + 1
            /\ sockets'[ws].wire[Len(sockets'[ws].wire)].op = SentOp("subscribe")
            /\ sockets'[ws].wire[Len(sockets'[ws].wire)].from = step'.gen
            /\ sockets'[step'.gen].rphase # "failed"]_vars

\* C33 witness: the loaded protocol built an object whose op is the empty
\* string for a service call, and the envelope of the fallback went out.
C33_Witness ==
    /\ step.op = "send" /\ step.res = "sent"
    /\ options.builds = <<"object", <<"string", "">>>>
    /\ ws # 0 /\ sockets[ws].wire # <<>>
    /\ sockets[ws].wire[Len(sockets[ws].wire)].op = "call"
    /\ sockets[ws].wire[Len(sockets[ws].wire)].taken

\* C34: decodeCbor returns no value for a malformed input: the encoding of a
\* value followed by one or more bytes, every proper prefix of the encoding of
\* a value, and an item whose first byte carries the additional info 28..31
\* are all rejected.
C34_MalformedRejected == codec.phase = "decoded" => codec.out = <<"error">>

\* C34 witness: the encoding of an object with a nested object, followed by one
\* zero byte, was rejected.
C34_Witness ==
    /\ codec.phase = "decoded"
    /\ codec.value = <<"obj", <<<<<<107>>, <<"obj", <<<<<<107>>, <<"null">>>>>>>>>>>>>>
    /\ codec.bytes = encodeValue(codec.value) \o <<0>>
    /\ codec.out = <<"error">>

\* C35: the timeout of a service call removes that call's own pending entry
\* only: when the entry under its id belongs to a later call that reused the id
\* and is still outstanding, the entry stays in the table.
C35_TimeoutRemovesOwnEntry ==
    [][step'.op = "callTimeout" =>
        LET i == step'.gen
            id == calls[i].id
        IN  pendingCalls[id] # i => pendingCalls'[id] = pendingCalls[id]]_vars

\* C35, the part that holds: the timeout rejects its own call, if that is still
\* pending, and no other; it leaves no entry under the id of the call and
\* disarms no timer but its own.
C35_TimeoutRejectsOwnCall ==
    [][step'.op = "callTimeout" =>
        LET i == step'.gen
        IN  /\ calls[i].st = "pending" =>
                    calls'[i].st = "rejected" /\ calls'[i].why = "timeout"
            /\ ~calls'[i].timer
            /\ pendingCalls'[calls[i].id] = 0
            /\ \A j \in 1..Len(calls) : j # i => calls'[j] = calls[j]]_vars

\* C35 witness: the timer of the first call fired after a second call had
\* taken its id; the second call was sent, is still pending, and has no entry.
C35_Witness ==
    /\ step.op = "callTimeout" /\ step.gen = 1
    /\ Len(calls) = 2 /\ calls[1].id = calls[2].id
    /\ calls[1].st = "rejected" /\ calls[1].why = "timeout"
    /\ calls[2].st = "pending" /\ calls[2].sent = "yes"
    /\ pendingCalls[calls[2].id] = 0


\* C36: with reconnect enabled, no close() and shouldRetry absent or answering
\* true, every failed or dropped connection (factory throw, accepted error or
\* close event, replay failure) leaves a reconnect timer armed, a timer that
\* fires calls the factory, a client that is not connected always has a timer,
\* a transport event or a replay step still to come, and under the fairness of
\* SpecRetryFair a client that is not connected becomes connected.
ConnectionFailed == step.notes \cap {"onSocketError", "onSocketClose"} # {}
Disconnected == wsUrl # NoUrl /\ ~Connected
Awaited ==
    \/ reconnectTimer # 0 /\ reconnectTimer \in timers
    \/ Last > 0 /\ transport.rs = CONNECTING
    \/ Last > 0 /\ sockets[Last].rphase \notin {"none", "done", "failed"}
C36_RetryLoopReconnects ==
    /\ [](ConnectionFailed => reconnectTimer # 0 /\ reconnectTimer \in timers)
    /\ [](step.op = "timer" => step.factory = 1)
    /\ [](Disconnected => Awaited)
    /\ (Disconnected ~> Connected)

\* A connected transport was dropped, the timer fired and built the next
\* transport, and that one opened and finished its replay.
C36_Witness ==
    /\ Connected /\ Last > 1 /\ sockets[Last].by = "timer"
    /\ reconnectTimer = 0 /\ sockets[1].rphase = "done"


\* C37: frames accepted from the active transport are dispatched in the order
\* in which they arrived, also when some of them are Blobs: when a frame is
\* dispatched and reaches a callback or settles a goal, no frame that arrived
\* before it is still waiting for its normalization.
Direct == step'.op = "onmessage" /\ step'.res # "suspended"
                                /\ step'.gen = activeSocketGeneration
Effective == step'.dispatched # {} \/ goals' # goals
C37_DispatchInArrivalOrder ==
    [][/\ (Direct /\ Effective) => Normalizing(State) = {}
       /\ (step'.op = "normalized" /\ Effective) => step'.gen = 1]_vars

\* C37, what holds: a feedback frame that needs no asynchronous normalization
\* reaches onFeedback of the goal it finds in the task of its message event,
\* and a feedback frame is handed to onFeedback at most once.
C37_DirectFeedbackServed ==
    [][/\ (Direct /\ step'.frame.kind = "feedback"
              /\ findPendingAction(State, step'.frame.id, step'.frame.session) # 0)
          => step'.dispatched =
                {<<"onFeedback",
                   findPendingAction(State, step'.frame.id, step'.frame.session)>>}
       /\ (step'.op = "normalized" /\ step'.frame.kind = "feedback")
          => Cardinality(step'.dispatched) <= 1]_vars

\* A feedback Blob arrived before the result of its action and is still waiting
\* when the result, which needed no normalization, settles the goal: the
\* feedback will find no pending action.
C37_Witness ==
    /\ step.op = "onmessage" /\ step.res # "suspended"
    /\ step.frame.kind = "result"
    /\ Len(goals) = 1 /\ goals[1].st = "resolved" /\ goals[1].why = "result"
    /\ \E t \in Normalizing(State) : t.key = "feedback"
    /\ \A a \in ActIds : pendingActions[a] = 0


\* C38 -- the in-flight marker of connect().
\* The transport g, opened by connect(), is the newest one and has neither
\* finished or failed its replay nor fired an error or close event.
StillOpening(g) ==
    /\ g \in 1..Len(sockets) /\ Newest(g) /\ sockets[g].by = "connect"
    /\ ~transport.errored /\ ~transport.closed
    /\ sockets[g].rphase \notin {"done", "failed"}

\* C38: the marker is set only while the transport opened by a connect() call
\* is still opening, and connect() returns the promise in flight, without
\* instantiating a transport, only while that transport is still opening.
C38_MarkerOnlyWhileOpening ==
    /\ connectInFlight # 0 => StillOpening(connectInFlight)
    /\ (step.op = "connect" /\ step.res = "joined") => StillOpening(step.gen)

\* C38, what holds: the marker names a transport that connect() opened and
\* whose promise is pending, which has neither finished nor failed its replay
\* and, while it is the newest, has fired no error event; and a connect() that
\* finds no marker calls the factory.
C38_MarkerClearedOnSettle ==
    /\ connectInFlight # 0 =>
          /\ connectInFlight \in 1..Len(sockets)
          /\ sockets[connectInFlight].by = "connect"
          /\ sockets[connectInFlight].promise = "pending"
          /\ sockets[connectInFlight].rphase \notin {"done", "failed"}
          /\ Newest(connectInFlight) => ~transport.errored
    /\ (step.op = "connect" /\ step.res # "joined") => step.factory = 1

\* The transport of connect() closed without opening, the timer replaced it by
\* a transport that opened, and a later connect() was handed the promise that
\* is still pending instead of a new transport.
C38_Witness ==
    /\ step.op = "connect" /\ step.res = "joined" /\ step.factory = 0
    /\ step.gen < Len(sockets) /\ sockets[step.gen].promise = "pending"
    /\ Connected /\ ~manualClose


\* C39 -- the server's view of a connection against the subscription table.
\* The envelopes the transport g took, in order.
Received(g) == SelectSeq(sockets[g].wire, LAMBDA h : h.taken)
\* The last subscribe or unsubscribe the server received for a topic on g.
LastFor(g, topic) ==
    LET w == Received(g)
        at == {i \in 1..Len(w) : w[i].key = topic
                                  /\ w[i].op \in {"subscribe", "unsubscribe"}}
    IN  IF at = {} THEN [op |-> "none", type |-> "", comp |-> ""]
        ELSE LET i == CHOOSE i \in at : \A j \in at : j <= i
             IN  [op |-> w[i].op, type |-> w[i].type, comp |-> w[i].comp]
ServerTopics(g) == {topic \in Topics : LastFor(g, topic).op = "subscribe"}
TableTopics == {subscriptions[k].topic : k \in 1..Len(subscriptions)}
\* The newest transport is open, its replay is complete, no send is suspended.
Quiescent == Connected /\ activeSocketGeneration = ws /\ tasks = {} /\ ~Replaying
CarriesRecorded(g) ==
    \A k \in 1..Len(subscriptions) :
        LET h == LastFor(g, subscriptions[k].topic)
        IN  h.op = "subscribe" => /\ h.type = subscriptions[k].type
                                  /\ h.comp = subscriptions[k].compression

\* C39: on an open connection whose replay is complete and with no send
\* suspended, the topics for which the server has received a subscribe not
\* followed by an unsubscribe are the topics of the subscription table, and
\* the last subscribe received for each carries the recorded type and
\* compression.
C39_ServerMatchesTable ==
    Quiescent => ServerTopics(ws) = TableTopics /\ CarriesRecorded(ws)

\* C39, what holds: in such a state every topic of the table is subscribed at
\* the server on that connection, with the recorded type and compression.
C39_TableIsSubscribed ==
    Quiescent => TableTopics \subseteq ServerTopics(ws) /\ CarriesRecorded(ws)

\* A subscribe that was suspended on the first connection was handed to the
\* second one after unsubscribe() had emptied the table while disconnected.
C39_Witness ==
    /\ Quiescent /\ ws = 2 /\ subscriptions = <<>>
    /\ ServerTopics(2) = {"t1"}
    /\ step.op = "send"


\* C40 -- transports that are live at the same time.
\* The newest transport is connecting or open: no close or error event has
\* fired on it and the client has not called close() on it.
NewestLive == Len(sockets) > 0 /\ transport.rs # CLOSED
Instantiates == Len(sockets') = Len(sockets) + 1

\* C40: whenever connect() or the reconnect timer instantiates a transport, the
\* transport created before it has closed or has had close() called on it by
\* the client (so that, step by step, at most one transport is live).
C40_OneLiveTransport ==
    [][Instantiates /\ NewestLive => step'.op = "connect" /\ ws = Len(sockets)]_vars

\* C40, what holds: connect() calls close() on the transport it replaces, when
\* that one is still live; this.ws is the newest transport or none, and it is
\* none only after close() has closed the transport.
C40_ConnectClosesPrevious ==
    /\ [][(Instantiates /\ NewestLive /\ step'.op = "connect") => ws = Len(sockets)]_vars
    /\ [](ws \in {0, Len(sockets)})
    /\ [](NewestLive => ws = Len(sockets))

\* The replay of transport 1 failed after the timer had replaced it: the timer
\* is armed again while transport 2, which the client has not closed, is still
\* connecting.
C40_Witness ==
    /\ step.op = "replay" /\ step.gen = 1 /\ sockets[1].rphase = "failed"
    /\ Len(sockets) = 2 /\ ws = 2 /\ transport.rs = CONNECTING
    /\ reconnectTimer # 0 /\ reconnectTimer \in timers
    /\ ~manualClose
====
